---- MODULE Spec2Model ----
(***************************************************************************)
(* Model of the SR-IOV DRA driver: the legacy (checkpoint-backed)          *)
(* DeviceState, the NRI-integrated DeviceStateManager with the pod         *)
(* manager, the two Driver prepare/unprepare hooks, the NRI sandbox hooks  *)
(* and the CNI runtime.                                                    *)
(***************************************************************************)
EXTENDS Integers, Sequences, FiniteSets, TLC

VARIABLES path, allocatable, checkpointFile, cdiFiles, podManager,
          firstPrepared, lastCall, cniSession, process

vars == <<path, allocatable, checkpointFile, cdiFiles, podManager,
          firstPrepared, lastCall, cniSession, process>>

(***************************************************************************)
(* Bounds.                                                                 *)
(***************************************************************************)
MaxBatch == 2
MaxReserved == 2
CfgMaxLen == 2
ResMaxLen == 2
MaxVFs == 2
MaxErrors == 2
MaxCallers == 2

(***************************************************************************)
(* Generic helpers.                                                        *)
(***************************************************************************)
SeqsUpTo(S, n) == UNION {[1..k -> S] : k \in 0..n}

Range(s) == {s[i] : i \in 1..Len(s)}

Perms(S) == {p \in [1..Cardinality(S) -> S] : Range(p) = S}

RECURSIVE Flatten(_)
Flatten(ss) == IF ss = <<>> THEN <<>> ELSE Head(ss) \o Flatten(Tail(ss))

(***************************************************************************)
(* The world the driver runs in: claim and pod identities, the discovered  *)
(* catalog, the network-attachment definitions of the cluster.             *)
(***************************************************************************)
ClaimUIDs == {"c1", "c2"}
PodUIDs == {"p1", "p2"}
EmptyUID == ""
ClaimNamespace == "ns"
PoolName == "node1"

Dev1 == "0000-01-00-1"
Dev2 == "0000-01-00-2"
DevGone == "0000-09-00-1"

\* types.AllocatableDevices built by discovery: device name -> attributes.
DiscoveredCatalog ==
    [d \in {Dev1, Dev2} |->
        [pciAddress |-> IF d = Dev1 THEN "0000:01:00.1" ELSE "0000:01:00.2",
         vendor |-> "15b3", deviceID |-> "101e",
         PFName |-> "eth0", eswitchMode |-> "legacy"]]

\* strings.ReplaceAll(device, "-", "_") on the device names of the world.
ReplaceDashes(d) ==
    CASE d = Dev1 -> "0000_01_00_1"
      [] d = Dev2 -> "0000_01_00_2"
      [] d = DevGone -> "0000_09_00_1"
      [] OTHER -> d

\* NetworkAttachmentDefinition objects of the claim namespace: name -> CNI config.
NetAttachDefs ==
    [n \in {"net1", "net2"} |-> [type |-> "sriov", name |-> n]]

(***************************************************************************)
(* configapi.VfConfig.                                                     *)
(***************************************************************************)
VfConfigOf(nad, ifn) == [NetAttachDefName |-> nad, IfName |-> ifn]

DefaultVfConfig == VfConfigOf("", "")

Normalize(cfg) == cfg

Validate(cfg) == cfg.NetAttachDefName # ""

(***************************************************************************)
(* Claims handed to the driver.  A claim's allocation is either unset or a *)
(* list of results and a list of driver configs.                           *)
(***************************************************************************)
Result(r, d) == [Request |-> r, Pool |-> PoolName, Device |-> d]

OpaqueCfg(reqs, cfg) == [Requests |-> reqs, Config |-> cfg]

NoAllocation == [set |-> FALSE, Results |-> <<>>, Config |-> <<>>]

Alloc(results, configs) == [set |-> TRUE, Results |-> results, Config |-> configs]

CfgAll == OpaqueCfg({}, VfConfigOf("net1", "eth1"))
CfgA == OpaqueCfg({"a"}, VfConfigOf("net1", "eth1"))
CfgB == OpaqueCfg({"b"}, VfConfigOf("net2", "eth2"))

AllocNone == Alloc(<<>>, <<>>)
AllocOne == Alloc(<<Result("a", Dev1)>>, <<CfgAll>>)
AllocDefault == Alloc(<<Result("a", Dev1)>>, <<>>)
AllocGone == Alloc(<<Result("a", DevGone)>>, <<CfgAll>>)
AllocTwo == Alloc(<<Result("a", Dev1), Result("b", Dev2)>>, <<CfgA, CfgB>>)
AllocOther == Alloc(<<Result("b", Dev2)>>, <<CfgAll>>)

\* The allocations a claim of the given UID is seen with.
AllocationsOf(uid) ==
    IF uid = "c1"
    THEN {NoAllocation, AllocNone, AllocOne, AllocDefault, AllocGone, AllocTwo}
    ELSE {NoAllocation, AllocOther}

\* Status.ReservedFor: one consumer, or the first k of a list of pods.
ReservedFors ==
    {<<p>> : p \in PodUIDs \cup {EmptyUID}} \cup
    {[i \in 1..k |-> IF i % 2 = 1 THEN "p1" ELSE "p2"] : k \in 0..MaxReserved}

ClaimOf(uid, alloc, rf) ==
    [UID |-> uid, Namespace |-> ClaimNamespace, Allocation |-> alloc, ReservedFor |-> rf]

(***************************************************************************)
(* Config resolution (getConfigResultsMap, and the same loop inlined in    *)
(* the legacy prepareDevices).  The map is keyed by the config object, one *)
(* per element of the config list: the key is the element's index.         *)
(***************************************************************************)
\* The default config put behind the claim's configs instead of in front.
InsertDefaultLast(configs) == configs \o <<OpaqueCfg({}, DefaultVfConfig)>>

\* slices.Insert(configs, 0, &OpaqueDeviceConfig{Requests: []string{}, Config: DefaultVfConfig()})
InsertDefault(configs) == <<OpaqueCfg({}, DefaultVfConfig)>> \o configs

\* len(c.Requests) == 0 || slices.Contains(c.Requests, result.Request)
ConfigMatches(c, request) == c.Requests = {} \/ request \in c.Requests

\* A resolution that prefers a config naming the request to any catch-all.
ResolveConfigMostSpecific(configs, request) ==
    LET scoped == {i \in 1..Len(configs) : request \in configs[i].Requests}
        any == {i \in 1..Len(configs) : ConfigMatches(configs[i], request)}
        from == IF scoped # {} THEN scoped ELSE any
    IN CHOOSE i \in from : \A j \in from : j <= i

\* slices.Backward(configs) and break at the first match: the highest index.
ResolveConfig(configs, request) ==
    LET m == {i \in 1..Len(configs) : ConfigMatches(configs[i], request)}
    IN CHOOSE i \in m : \A j \in m : j <= i

NotAllocatable(cat, results) ==
    \E i \in 1..Len(results) : results[i].Device \notin DOMAIN cat

\* configResultsMap: key -> the results appended to it, in result order.
getConfigResultsMap(configs, results) ==
    LET keyed(cfgs) ==
            [k \in 1..Len(cfgs) |->
                SelectSeq(results, LAMBDA r : ResolveConfig(cfgs, r.Request) = k)]
    IN keyed(InsertDefault(configs))

MapKeys(m) == {k \in DOMAIN m : m[k] # <<>>}

\* The orders in which a range over the map can visit its keys.
KeyOrders(configs, results) == Perms(MapKeys(getConfigResultsMap(configs, results)))

(***************************************************************************)
(* CDI handler: device identifiers of a claim and the per-claim spec file. *)
(***************************************************************************)
GetClaimDevices(claimUID, devices) ==
    [i \in 1..Len(devices) |-> <<"k8s.sriov/vf", claimUID, devices[i]>>]

CreateClaimSpecFile(cdi, claimUID) == cdi \cup {claimUID}

DeleteClaimSpecFile(cdi, claimUID) == cdi \ {claimUID}

(***************************************************************************)
(* Checkpoint file of the legacy DeviceState.  A Go slice is a sequence,   *)
(* the nil slice the empty one (the legacy code builds a claim's devices   *)
(* by append from a nil slice only).  JSON writes a nil slice as null.     *)
(***************************************************************************)
NilSlice == <<>>

JsonNull == [null |-> TRUE, items |-> <<>>]

JsonOfSlice(s) == IF s = NilSlice THEN JsonNull ELSE [null |-> FALSE, items |-> s]

SliceOfJson(j) == IF j.null THEN NilSlice ELSE j.items

NoEntry == [present |-> FALSE, value |-> JsonNull]

\* checkpoint.NewCheckpoint(): an empty PreparedClaims map.
NewCheckpoint == [uid \in ClaimUIDs |-> [present |-> FALSE, devices |-> NilSlice]]

MarshalCheckpoint(pc) ==
    [uid \in ClaimUIDs |->
        IF pc[uid].present
        THEN [present |-> TRUE, value |-> JsonOfSlice(pc[uid].devices)]
        ELSE NoEntry]

UnmarshalCheckpoint(file) ==
    [uid \in ClaimUIDs |->
        IF file[uid].present
        THEN [present |-> TRUE, devices |-> SliceOfJson(file[uid].value)]
        ELSE [present |-> FALSE, devices |-> NilSlice]]

\* preparedClaims[claimUID]: the zero value (nil) for a missing key.
MapIndex(pc, uid) == IF pc[uid].present THEN pc[uid].devices ELSE NilSlice

\* A GetDevices that returns the device of the first entry only.
GetDevicesOfFirst(pds) == [i \in 1..(IF Len(pds) = 0 THEN 0 ELSE 1) |-> pds[i].Device]

\* PreparedDevices.GetDevices(): the drapbv1.Device of every entry.
GetDevices(pds) == [i \in 1..Len(pds) |-> pds[i].Device]

(***************************************************************************)
(* Legacy DeviceState (pkg/state).                                         *)
(***************************************************************************)
LegacyEnv(cat, result) ==
    <<[name |-> <<"VF_DEVICE", result.Device>>, value |-> cat[result.Device].pciAddress]>>

\* DeviceState.prepareDevices; buildOrder is the order of the final range
\* over configResultsMap.
LegacyPrepareDevices(cat, claim, buildOrder) ==
    LET device(r) ==
            [Device |-> [RequestNames |-> <<r.Request>>,
                         PoolName |-> r.Pool,
                         DeviceName |-> r.Device,
                         CDIDeviceIDs |-> GetClaimDevices(claim.UID, <<r.Device>>)],
             ContainerEdits |-> LegacyEnv(cat, r)]
        resolved(results, cfgs, m) ==
            IF NotAllocatable(cat, results)
            THEN [err |-> "NotAllocatable", devices |-> NilSlice]
            ELSE IF \E k \in MapKeys(m) : ~Validate(Normalize(cfgs[k].Config))
            THEN [err |-> "InvalidConfig", devices |-> NilSlice]
            ELSE [err |-> "",
                  devices |-> Flatten([i \in 1..Len(buildOrder) |->
                                         [j \in 1..Len(m[buildOrder[i]]) |->
                                            device(m[buildOrder[i]][j])]])]
    IN IF ~claim.Allocation.set THEN [err |-> "InvalidState", devices |-> NilSlice]
       ELSE resolved(claim.Allocation.Results,
                     InsertDefault(claim.Allocation.Config),
                     getConfigResultsMap(claim.Allocation.Config, claim.Allocation.Results))

IO(op, uid) == [op |-> op, uid |-> uid]

\* The outcome of one call: the state it leaves, its return value and the
\* I/O it performed.
Outcome(ckpt, cdi, err, devices, io) ==
    [ckpt |-> ckpt, cdi |-> cdi, err |-> err, devices |-> devices, io |-> io]

\* preparedClaims[claimUID] != nil
LegacyKnown(preparedClaims, claimUID) == MapIndex(preparedClaims, claimUID) # NilSlice

\* A Prepare that persists the checkpoint before it writes the CDI spec file.
LegacyPrepareCheckpointFirst(cat, ckpt, cdi, claim, fault, buildOrder) ==
    LET uid == claim.UID
        io1 == <<IO("GetCheckpoint", uid)>>
        io2 == <<IO("GetCheckpoint", uid), IO("CreateCheckpoint", uid)>>
        io3 == <<IO("GetCheckpoint", uid), IO("CreateCheckpoint", uid),
                 IO("CreateClaimSpecFile", uid)>>
        recorded(preparedClaims, pd) ==
            MarshalCheckpoint([preparedClaims EXCEPT
                                  ![uid] = [present |-> TRUE, devices |-> pd.devices]])
        prepared(preparedClaims, pd) ==
            IF LegacyKnown(preparedClaims, uid)
            THEN Outcome(ckpt, cdi, "", GetDevices(MapIndex(preparedClaims, uid)), io1)
            ELSE IF pd.err # "" THEN Outcome(ckpt, cdi, pd.err, NilSlice, io1)
            ELSE IF fault = "createCheckpoint"
            THEN Outcome(ckpt, cdi, "PersistenceFailure", NilSlice, io2)
            ELSE IF fault = "cdiWrite"
            THEN Outcome(recorded(preparedClaims, pd), cdi, "CDIWriteFailure", NilSlice, io3)
            ELSE Outcome(recorded(preparedClaims, pd), CreateClaimSpecFile(cdi, uid), "",
                         GetDevices(pd.devices), io3)
    IN IF fault = "getCheckpoint" THEN Outcome(ckpt, cdi, "PersistenceFailure", NilSlice, io1)
       ELSE prepared(UnmarshalCheckpoint(ckpt), LegacyPrepareDevices(cat, claim, buildOrder))

\* DeviceState.Prepare.  fault names the I/O step that fails in this call.
LegacyPrepare(cat, ckpt, cdi, claim, fault, buildOrder) ==
    LET uid == claim.UID
        io1 == <<IO("GetCheckpoint", uid)>>
        io2 == <<IO("GetCheckpoint", uid), IO("CreateClaimSpecFile", uid)>>
        io3 == <<IO("GetCheckpoint", uid), IO("CreateClaimSpecFile", uid),
                 IO("CreateCheckpoint", uid)>>
        stored(pc2, cdi2) ==
            Outcome(MarshalCheckpoint(pc2), cdi2, "", GetDevices(MapIndex(pc2, uid)), io3)
        prepared(preparedClaims, pd) ==
            IF LegacyKnown(preparedClaims, uid)
            THEN Outcome(ckpt, cdi, "", GetDevices(MapIndex(preparedClaims, uid)), io1)
            ELSE IF pd.err # "" THEN Outcome(ckpt, cdi, pd.err, NilSlice, io1)
            ELSE IF fault = "cdiWrite"
            THEN Outcome(ckpt, cdi, "CDIWriteFailure", NilSlice, io2)
            ELSE IF fault = "createCheckpoint"
            THEN Outcome(ckpt, CreateClaimSpecFile(cdi, uid), "PersistenceFailure",
                         NilSlice, io3)
            ELSE stored([preparedClaims EXCEPT
                            ![uid] = [present |-> TRUE, devices |-> pd.devices]],
                        CreateClaimSpecFile(cdi, uid))
    IN IF fault = "getCheckpoint" THEN Outcome(ckpt, cdi, "PersistenceFailure", NilSlice, io1)
       ELSE prepared(UnmarshalCheckpoint(ckpt), LegacyPrepareDevices(cat, claim, buildOrder))

\* DeviceState.Unprepare without its early return.
LegacyUnknownNever(preparedClaims, claimUID) == FALSE

\* preparedClaims[claimUID] == nil
LegacyUnknown(preparedClaims, claimUID) == MapIndex(preparedClaims, claimUID) = NilSlice

\* DeviceState.Unprepare.
LegacyUnprepare(ckpt, cdi, uid, fault) ==
    LET io1 == <<IO("GetCheckpoint", uid)>>
        io2 == <<IO("GetCheckpoint", uid), IO("DeleteClaimSpecFile", uid)>>
        io3 == <<IO("GetCheckpoint", uid), IO("DeleteClaimSpecFile", uid),
                 IO("CreateCheckpoint", uid)>>
        unprepared(preparedClaims) ==
            IF LegacyUnknown(preparedClaims, uid)
            THEN Outcome(ckpt, cdi, "", NilSlice, io1)
            ELSE IF fault = "cdiDelete"
            THEN Outcome(ckpt, cdi, "CDIDeleteFailure", NilSlice, io2)
            ELSE IF fault = "createCheckpoint"
            THEN Outcome(ckpt, DeleteClaimSpecFile(cdi, uid), "PersistenceFailure",
                         NilSlice, io3)
            ELSE Outcome(MarshalCheckpoint([preparedClaims EXCEPT
                            ![uid] = [present |-> FALSE, devices |-> NilSlice]]),
                         DeleteClaimSpecFile(cdi, uid), "", NilSlice, io3)
    IN IF fault = "getCheckpoint" THEN Outcome(ckpt, cdi, "PersistenceFailure", NilSlice, io1)
       ELSE unprepared(UnmarshalCheckpoint(ckpt))

(***************************************************************************)
(* Pod manager: (pod UID, claim UID) -> prepared devices.                  *)
(***************************************************************************)
PMKeys == PodUIDs \X ClaimUIDs

PMAbsent == [present |-> FALSE, devices |-> <<>>]

NewPodManager == [k \in PMKeys |-> PMAbsent]

PMGet(pm, podUID, claimUID) ==
    IF <<podUID, claimUID>> \in PMKeys /\ pm[<<podUID, claimUID>>].present
    THEN [found |-> TRUE, devices |-> pm[<<podUID, claimUID>>].devices]
    ELSE [found |-> FALSE, devices |-> <<>>]

\* Set rejects a malformed (empty) pod or claim identity.
PMSetFails(podUID, claimUID) == podUID = EmptyUID \/ claimUID = EmptyUID

PMSet(pm, podUID, claimUID, devices) ==
    [pm EXCEPT ![<<podUID, claimUID>>] = [present |-> TRUE, devices |-> devices]]

PMPodsOfClaim(pm, claimUID) == {p \in PodUIDs : pm[<<p, claimUID>>].present}

PMGetByClaimFound(pm, claimUID) == PMPodsOfClaim(pm, claimUID) # {}

PMDeleteClaim(pm, claimUID) ==
    [k \in PMKeys |-> IF k[2] = claimUID THEN PMAbsent ELSE pm[k]]

PMClaimsOfPod(pm, podUID) == {c \in ClaimUIDs : pm[<<podUID, c>>].present}

\* GetDevicesByPodUID: the devices of every claim of the pod, the claims
\* visited in claimOrder.
PMGetDevicesByPodUID(pm, podUID, claimOrder) ==
    Flatten([i \in 1..Len(claimOrder) |->
        [j \in 1..Len(pm[<<podUID, claimOrder[i]>>].devices) |->
            [claim |-> claimOrder[i], idx |-> j]]])

(***************************************************************************)
(* NRI-integrated DeviceStateManager (pkg/devicestate).                    *)
(***************************************************************************)
PodNameOf(podUID) == IF podUID = "p1" THEN "pod-1" ELSE "pod-2"

\* types.AddDeviceIDToNetConf: the definition's config with deviceID injected.
AddDeviceIDToNetConf(conf, pciAddress) ==
    [type |-> conf.type, name |-> conf.name, deviceID |-> pciAddress]

\* Edits that name the device and leave the network attachment out.
NriEnvWithoutNetAttachDef(cat, result, cfg) ==
    <<[name |-> <<"VF_DEVICE", ReplaceDashes(result.Device)>>,
       value |-> cat[result.Device].pciAddress]>>

\* envs of DeviceStateManager.applyConfig.
NriEnv(cat, result, cfg) ==
    <<[name |-> <<"VF_DEVICE", ReplaceDashes(result.Device)>>,
       value |-> cat[result.Device].pciAddress],
      [name |-> <<"NET_ATTACH_DEF_NAME">>, value |-> cfg.NetAttachDefName]>>

\* The steps of the first range over configResultsMap, in applyOrder: per
\* key the validation of its config, then per result one definition lookup.
ApplySteps(cfgs, m, applyOrder) ==
    Flatten([i \in 1..Len(applyOrder) |->
        <<[kind |-> "validate", key |-> applyOrder[i], idx |-> 0]>> \o
        [j \in 1..Len(m[applyOrder[i]]) |->
            [kind |-> "get", key |-> applyOrder[i], idx |-> j]]])

\* A range over the configs that applies them without validating them.
ApplyStepFailsUnvalidated(cfgs, step, fault) ==
    /\ step.kind = "get"
    /\ \/ fault = "nadGet"
       \/ Normalize(cfgs[step.key].Config).NetAttachDefName \notin DOMAIN NetAttachDefs

ApplyStepFails(cfgs, step, fault) ==
    LET cfg == Normalize(cfgs[step.key].Config)
    IN IF step.kind = "validate" THEN ~Validate(cfg)
       ELSE fault = "nadGet" \/ cfg.NetAttachDefName \notin DOMAIN NetAttachDefs

\* The key whose applyConfig wrote the per-device maps last for a device.
LastWriter(m, applyOrder, device) ==
    LET w == {i \in 1..Len(applyOrder) :
                 \E j \in 1..Len(m[applyOrder[i]]) : m[applyOrder[i]][j].Device = device}
    IN applyOrder[CHOOSE i \in w : \A j \in w : j <= i]

\* The steps that ran: all of them, or those up to the first that fails.
ApplyFailing(cfgs, steps, fault) ==
    {i \in 1..Len(steps) : ApplyStepFails(cfgs, steps[i], fault)}

ApplyUpto(steps, failing) ==
    IF failing = {} THEN Len(steps) ELSE CHOOSE i \in failing : \A j \in failing : i <= j

\* The lookups of NetworkAttachmentDefinition objects among the steps that ran.
ApplyIO(cfgs, done) ==
    LET lookups(gets) ==
            [i \in 1..Len(gets) |->
                IO("GetNetAttachDef", cfgs[gets[i].key].Config.NetAttachDefName)]
    IN lookups(SelectSeq(done, LAMBDA st : st.kind = "get"))

\* The PreparedDevice built for one allocation result under its config.
NriPreparedDevice(cat, claim, r, cfg) ==
    [ClaimUID |-> claim.UID,
     PodUID |-> claim.ReservedFor[1],
     PodName |-> PodNameOf(claim.ReservedFor[1]),
     PodNamespace |-> claim.Namespace,
     Device |-> [RequestNames |-> <<r.Request>>,
                 PoolName |-> r.Pool,
                 DeviceName |-> r.Device,
                 CDIDeviceIDs |-> GetClaimDevices(claim.UID, <<r.Device>>)],
     ContainerEdits |-> NriEnv(cat, r, cfg),
     NetAttachDefConfig |-> AddDeviceIDToNetConf(NetAttachDefs[cfg.NetAttachDefName],
                                                 cat[r.Device].pciAddress),
     IfName |-> cfg.IfName,
     PodNetworkNamespace |-> "",
     PodSandboxID |-> ""]

\* DeviceStateManager.prepareDevices.
NriPrepareDevices(cat, claim, fault, applyOrder, buildOrder) ==
    LET built(cfgs, m) ==
            Flatten([i \in 1..Len(buildOrder) |->
                       [j \in 1..Len(m[buildOrder[i]]) |->
                          NriPreparedDevice(
                              cat, claim, m[buildOrder[i]][j],
                              Normalize(cfgs[LastWriter(m, applyOrder,
                                                        m[buildOrder[i]][j].Device)].Config))]])
        ran(cfgs, m, steps, failing, upto) ==
            IF failing # {}
            THEN [err |-> IF steps[upto].kind = "validate" THEN "InvalidConfig"
                          ELSE "NetAttachDefLookup",
                  devices |-> <<>>, io |-> ApplyIO(cfgs, SubSeq(steps, 1, upto))]
            ELSE [err |-> "", io |-> ApplyIO(cfgs, steps), devices |-> built(cfgs, m)]
        failed(cfgs, m, steps, failing) ==
            ran(cfgs, m, steps, failing, ApplyUpto(steps, failing))
        applied(cfgs, m, steps) ==
            failed(cfgs, m, steps, ApplyFailing(cfgs, steps, fault))
        resolved(results, cfgs, m) ==
            IF NotAllocatable(cat, results)
            THEN [err |-> "NotAllocatable", devices |-> <<>>, io |-> <<>>]
            ELSE applied(cfgs, m, ApplySteps(cfgs, m, applyOrder))
    IN IF ~claim.Allocation.set
       THEN [err |-> "InvalidState", devices |-> <<>>, io |-> <<>>]
       ELSE resolved(claim.Allocation.Results,
                     InsertDefault(claim.Allocation.Config),
                     getConfigResultsMap(claim.Allocation.Config, claim.Allocation.Results))

\* A PrepareDevices that does not look at the length of the device list.
PrepareDevicesUnchecked(cat, cdi, claim, fault, applyOrder, buildOrder) ==
    LET written(pd, io1, io2) ==
            IF pd.err # "" THEN [cdi |-> cdi, err |-> pd.err, devices |-> <<>>, io |-> io1]
            ELSE IF fault = "cdiWrite"
            THEN [cdi |-> cdi, err |-> "CDIWriteFailure", devices |-> <<>>, io |-> io2]
            ELSE [cdi |-> CreateClaimSpecFile(cdi, claim.UID), err |-> "",
                  devices |-> pd.devices, io |-> io2]
        prepared(pd) ==
            written(pd, <<IO("PrepareDevices", claim.UID)>> \o pd.io,
                    <<IO("PrepareDevices", claim.UID)>> \o pd.io \o
                    <<IO("CreateClaimSpecFile", claim.UID)>>)
    IN prepared(NriPrepareDevices(cat, claim, fault, applyOrder, buildOrder))

\* DeviceStateManager.PrepareDevices.
PrepareDevices(cat, cdi, claim, fault, applyOrder, buildOrder) ==
    LET written(pd, io1, io2) ==
            IF pd.err # "" THEN [cdi |-> cdi, err |-> pd.err, devices |-> <<>>, io |-> io1]
            ELSE IF Len(pd.devices) = 0
            THEN [cdi |-> cdi, err |-> "NoPreparedDevices", devices |-> <<>>, io |-> io1]
            ELSE IF fault = "cdiWrite"
            THEN [cdi |-> cdi, err |-> "CDIWriteFailure", devices |-> <<>>, io |-> io2]
            ELSE [cdi |-> CreateClaimSpecFile(cdi, claim.UID), err |-> "",
                  devices |-> pd.devices, io |-> io2]
        prepared(pd) ==
            written(pd, <<IO("PrepareDevices", claim.UID)>> \o pd.io,
                    <<IO("PrepareDevices", claim.UID)>> \o pd.io \o
                    <<IO("CreateClaimSpecFile", claim.UID)>>)
    IN prepared(NriPrepareDevices(cat, claim, fault, applyOrder, buildOrder))

\* An Unprepare whose failed delete has removed the file all the same.
NriUnprepareFileGone(cdi, claimUID, fault) ==
    LET io == <<IO("Unprepare", claimUID), IO("DeleteClaimSpecFile", claimUID)>>
    IN IF fault = "cdiDelete"
       THEN [cdi |-> DeleteClaimSpecFile(cdi, claimUID), err |-> "CDIDeleteFailure", io |-> io]
       ELSE [cdi |-> DeleteClaimSpecFile(cdi, claimUID), err |-> "", io |-> io]

\* DeviceStateManager.Unprepare.
NriUnprepare(cdi, claimUID, fault) ==
    LET io == <<IO("Unprepare", claimUID), IO("DeleteClaimSpecFile", claimUID)>>
    IN IF fault = "cdiDelete" THEN [cdi |-> cdi, err |-> "CDIDeleteFailure", io |-> io]
       ELSE [cdi |-> DeleteClaimSpecFile(cdi, claimUID), err |-> "", io |-> io]

(***************************************************************************)
(* Driver hooks.  One batch element is a claim together with the           *)
(* environment's choices for its processing: the I/O step that fails (if   *)
(* any) and the two orders in which the config map is ranged over.         *)
(***************************************************************************)
\* kubeletplugin.Device built from a drapbv1.Device.
ToPluginDevices(devs) ==
    [i \in 1..Len(devs) |->
        [Requests |-> devs[i].RequestNames, PoolName |-> devs[i].PoolName,
         DeviceName |-> devs[i].DeviceName, CDIDeviceIDs |-> devs[i].CDIDeviceIDs]]

FirstKeys == (PodUIDs \cup {"legacy"}) \X ClaimUIDs

NotPrepared == [prepared |-> FALSE, devices |-> <<>>]

NoFirst == [k \in FirstKeys |-> NotPrepared]

RecordFirst(first, key, devices) ==
    IF key \in FirstKeys /\ ~first[key].prepared
    THEN [first EXCEPT ![key] = [prepared |-> TRUE, devices |-> devices]]
    ELSE first

ForgetFirst(first, claimUID) ==
    [k \in FirstKeys |-> IF k[2] = claimUID THEN NotPrepared ELSE first[k]]

KnownClaim(first, claimUID) == \E k \in FirstKeys : k[2] = claimUID /\ first[k].prepared

\* The state a batch is folded over: checkpoint file, CDI directory, pod
\* manager, the record of first prepares, and the per-claim outcomes.
FoldState(ckpt, cdi, pm, first, items) ==
    [ckpt |-> ckpt, cdi |-> cdi, pm |-> pm, first |-> first, items |-> items]

ItemOutcome(st, key, in, err, devices, io, ckpt2, cdi2, pm2) ==
    [uid |-> key[2], pod |-> key[1], in |-> in, err |-> err, devices |-> devices, io |-> io,
     repeat |-> key \in FirstKeys /\ st.first[key].prepared,
     firstDevices |-> IF key \in FirstKeys THEN st.first[key].devices ELSE <<>>,
     known |-> KnownClaim(st.first, key[2]),
     changed |-> <<ckpt2, cdi2, pm2>> # <<st.ckpt, st.cdi, st.pm>>,
     fileAfter |-> key[2] \in cdi2,
     recordAfter |-> ckpt2[key[2]].present \/ PMGetByClaimFound(pm2, key[2])]

\* pkg/driver/driver.go prepareResourceClaim (legacy).
LegacyPrepareItem(cat, st, it) ==
    LET folded(o, key, devs) ==
            FoldState(o.ckpt, o.cdi, st.pm,
                      IF o.err = "" THEN RecordFirst(st.first, key, devs) ELSE st.first,
                      Append(st.items,
                             ItemOutcome(st, key, it, o.err, devs, o.io, o.ckpt, o.cdi, st.pm)))
        returned(o) == folded(o, <<"legacy", it.claim.UID>>, ToPluginDevices(o.devices))
    IN returned(LegacyPrepare(cat, st.ckpt, st.cdi, it.claim, it.fault, it.buildOrder))

\* pkg/driver/driver.go unprepareResourceClaim (legacy).
LegacyUnprepareItem(st, it) ==
    LET returned(o) ==
            FoldState(o.ckpt, o.cdi, st.pm,
                      IF o.err = "" THEN ForgetFirst(st.first, it.uid) ELSE st.first,
                      Append(st.items,
                             ItemOutcome(st, <<"legacy", it.uid>>, it, o.err, <<>>, o.io,
                                         o.ckpt, o.cdi, st.pm)))
    IN returned(LegacyUnprepare(st.ckpt, st.cdi, it.uid, it.fault))

\* prepareResourceClaim without the pod-manager lookup.
AlreadyPreparedNever(pm, podUID, claimUID) == [found |-> FALSE, devices |-> <<>>]

\* d.podManager.Get(podUID, claim.UID)
AlreadyPrepared(pm, podUID, claimUID) == PMGet(pm, podUID, claimUID)

\* A check of Status.ReservedFor that takes the first of several pods.
ReservedForErrorFirstPod(rf) == IF Len(rf) = 0 THEN "NoPodInfo" ELSE ""

\* len(claim.Status.ReservedFor) == 0 ... else if > 1
ReservedForError(rf) ==
    IF Len(rf) = 0 THEN "NoPodInfo"
    ELSE IF Len(rf) > 1 THEN "MultiplePodsUnsupported" ELSE ""

\* pkg/driver/dra_hook.go prepareResourceClaim.
NriPrepare(cat, pm, cdi, claim, fault, applyOrder, buildOrder) ==
    LET out(pm2, cdi2, err, devs, io) ==
            [pm |-> pm2, cdi |-> cdi2, err |-> err, devices |-> devs, io |-> io]
        prepared(podUID, pd) ==
            IF pd.err # "" THEN out(pm, pd.cdi, pd.err, <<>>, pd.io)
            ELSE IF PMSetFails(podUID, claim.UID)
            THEN out(pm, pd.cdi, "PodManagerSet", <<>>, pd.io)
            ELSE out(PMSet(pm, podUID, claim.UID, pd.devices), pd.cdi, "",
                     ToPluginDevices(GetDevices(pd.devices)), pd.io)
        looked(podUID, got) ==
            IF got.found
            THEN out(pm, cdi, "", ToPluginDevices(GetDevices(got.devices)), <<>>)
            ELSE prepared(podUID,
                          PrepareDevices(cat, cdi, claim, fault, applyOrder, buildOrder))
        checked(rf, rfErr) ==
            IF rfErr # "" THEN out(pm, cdi, rfErr, <<>>, <<>>)
            ELSE looked(rf[1], AlreadyPrepared(pm, rf[1], claim.UID))
    IN checked(claim.ReservedFor, ReservedForError(claim.ReservedFor))

NriPrepareItem(cat, st, it) ==
    LET returned(o, key) ==
            FoldState(st.ckpt, o.cdi, o.pm,
                      IF o.err = "" THEN RecordFirst(st.first, key, o.devices) ELSE st.first,
                      Append(st.items,
                             ItemOutcome(st, key, it, o.err, o.devices, o.io,
                                         st.ckpt, o.cdi, o.pm)))
    IN returned(NriPrepare(cat, st.pm, st.cdi, it.claim, it.fault,
                           it.applyOrder, it.buildOrder),
                <<IF Len(it.claim.ReservedFor) = 1 THEN it.claim.ReservedFor[1]
                  ELSE EmptyUID,
                  it.claim.UID>>)

\* An unprepare that removes the claim from the pod manager before it calls
\* the device-state manager.
NriUnprepareClaimDeletesFirst(pm, cdi, claimUID, fault) ==
    LET unprepared(u) ==
            [pm |-> PMDeleteClaim(pm, claimUID), cdi |-> u.cdi, err |-> u.err, io |-> u.io]
    IN IF ~PMGetByClaimFound(pm, claimUID)
       THEN [pm |-> pm, cdi |-> cdi, err |-> "", io |-> <<>>]
       ELSE unprepared(NriUnprepare(cdi, claimUID, fault))

\* An unprepare that leaves the claim in the pod manager.
NriUnprepareClaimKeepsEntry(pm, cdi, claimUID, fault) ==
    LET unprepared(u) == [pm |-> pm, cdi |-> u.cdi, err |-> u.err, io |-> u.io]
    IN IF ~PMGetByClaimFound(pm, claimUID)
       THEN [pm |-> pm, cdi |-> cdi, err |-> "", io |-> <<>>]
       ELSE unprepared(NriUnprepare(cdi, claimUID, fault))

\* pkg/driver/dra_hook.go unprepareResourceClaim.
NriUnprepareClaim(pm, cdi, claimUID, fault) ==
    LET unprepared(u) ==
            IF u.err # "" THEN [pm |-> pm, cdi |-> u.cdi, err |-> u.err, io |-> u.io]
            ELSE [pm |-> PMDeleteClaim(pm, claimUID), cdi |-> u.cdi, err |-> "", io |-> u.io]
    IN IF ~PMGetByClaimFound(pm, claimUID)
       THEN [pm |-> pm, cdi |-> cdi, err |-> "", io |-> <<>>]
       ELSE unprepared(NriUnprepare(cdi, claimUID, fault))

NriUnprepareItem(st, it) ==
    LET returned(o) ==
            FoldState(st.ckpt, o.cdi, o.pm,
                      IF o.err = "" THEN ForgetFirst(st.first, it.uid) ELSE st.first,
                      Append(st.items,
                             ItemOutcome(st, <<EmptyUID, it.uid>>, it, o.err, <<>>, o.io,
                                         st.ckpt, o.cdi, o.pm)))
    IN returned(NriUnprepareClaim(st.pm, st.cdi, it.uid, it.fault))

(***************************************************************************)
(* CNI runtime (pkg/cni).                                                  *)
(***************************************************************************)
DriverName == "sriovnetwork.openshift.io"

\* libcni.RuntimeConf built by AttachNetwork and by DetachNetwork.
RuntimeConf(pod, podNetworkNamespace, deviceConfig) ==
    [ContainerID |-> pod.Id,
     NetNS |-> podNetworkNamespace,
     IfName |-> deviceConfig.IfName,
     Args |-> << <<"IgnoreUnknown", "true">>,
                 <<"K8S_POD_NAMESPACE", pod.Namespace>>,
                 <<"K8S_POD_NAME", pod.Name>>,
                 <<"K8S_POD_INFRA_CONTAINER_ID", pod.Id>>,
                 <<"K8S_POD_UID", pod.Uid>> >>]

\* RuntimeConf of a detach that names the pod UID as the container.
RuntimeConfByPodUID(pod, podNetworkNamespace, deviceConfig) ==
    [RuntimeConf(pod, podNetworkNamespace, deviceConfig) EXCEPT !.ContainerID = pod.Uid]

DetachRuntimeConf(pod, podNetworkNamespace, deviceConfig) ==
    RuntimeConf(pod, podNetworkNamespace, deviceConfig)

\* GetCNIConfigFromSpec injects the driver name when the config has none;
\* ConfFromBytes rejects a config without a plugin type.
GetCNIConfigFromSpec(conf, netName) ==
    IF conf.name = "" THEN [conf EXCEPT !.name = netName] ELSE conf

ConfFromBytesFails(raw) == raw.type = ""

CNICall(cmd, conf, rt) == [cmd |-> cmd, conf |-> conf, rt |-> rt]

\* Runtime.AttachNetwork; cniFails says whether the plugin's ADD fails.
AttachNetwork(pod, podNetworkNamespace, deviceConfig, cniFails) ==
    LET added(rt, raw) ==
            IF ConfFromBytesFails(raw) THEN [err |-> "NetworkAttachFailed", calls |-> <<>>]
            ELSE [err |-> IF cniFails THEN "NetworkAttachFailed" ELSE "",
                  calls |-> <<CNICall("ADD", raw, rt)>>]
    IN added(RuntimeConf(pod, podNetworkNamespace, deviceConfig),
             GetCNIConfigFromSpec(deviceConfig.NetAttachDefConfig, DriverName))

\* Runtime.DetachNetwork; cniFails says whether the plugin's DEL fails.
DetachNetwork(pod, podNetworkNamespace, deviceConfig, cniFails) ==
    LET deleted(rt, raw) ==
            IF ConfFromBytesFails(raw) THEN [err |-> "NetworkAttachFailed", calls |-> <<>>]
            ELSE [err |-> IF cniFails THEN "NetworkAttachFailed" ELSE "",
                  calls |-> <<CNICall("DEL", raw, rt)>>]
    IN deleted(DetachRuntimeConf(pod, podNetworkNamespace, deviceConfig),
               GetCNIConfigFromSpec(deviceConfig.NetAttachDefConfig, DriverName))

(***************************************************************************)
(* NRI plugin (pkg/nri).                                                   *)
(***************************************************************************)
NetNsOf(podUID) == IF podUID = "p1" THEN "/var/run/netns/1" ELSE "/var/run/netns/2"

SandboxIdOf(podUID) == IF podUID = "p1" THEN "sandbox-1" ELSE "sandbox-2"

NamespaceLists(podUID) ==
    { <<>>,
      <<[Type |-> "ipc", Path |-> ""]>>,
      <<[Type |-> "ipc", Path |-> ""], [Type |-> "network", Path |-> NetNsOf(podUID)]>> }

Sandboxes ==
    UNION {{[Uid |-> p, Id |-> SandboxIdOf(p), Name |-> PodNameOf(p),
             Namespace |-> ClaimNamespace, Namespaces |-> ns] :
               ns \in NamespaceLists(p)} : p \in PodUIDs}

\* getNetworkNamespace: the path of the sandbox's network namespace entry.
getNetworkNamespace(pod) ==
    LET net == {i \in 1..Len(pod.Namespaces) : pod.Namespaces[i].Type = "network"}
    IN IF net = {} THEN ""
       ELSE pod.Namespaces[CHOOSE i \in net : \A j \in net : i <= j].Path

\* The pod-manager record a device reference points to.
Deref(pm, podUID, ref) == pm[<<podUID, ref.claim>>].devices[ref.idx]

\* device.PodNetworkNamespace = ...; device.PodSandboxID = ... on the first
\* n referenced records.
StampDevices(pm, podUID, refs, n, networkNamespace, sandboxID) ==
    [k \in PMKeys |->
        IF k[1] # podUID THEN pm[k]
        ELSE [pm[k] EXCEPT !.devices =
                [j \in 1..Len(pm[k].devices) |->
                    IF \E i \in 1..n : refs[i] = [claim |-> k[2], idx |-> j]
                    THEN [pm[k].devices[j] EXCEPT !.PodNetworkNamespace = networkNamespace,
                                                  !.PodSandboxID = sandboxID]
                    ELSE pm[k].devices[j]]]]

\* Stop's answer for a sandbox without network namespace, were it Run's.
StopWithoutNamespaceOk == ""

StopWithoutNamespace == "NoNetworkNamespace"

\* A loop that goes on to the remaining devices after a failure.
SandboxLoopContinues(cmd, pm, pod, refs, networkNamespace, failDevs) ==
    LET call(d) ==
            IF cmd = "ADD"
            THEN AttachNetwork(pod, networkNamespace, d, d.Device.DeviceName \in failDevs)
            ELSE DetachNetwork(pod, networkNamespace, d, d.Device.DeviceName \in failDevs)
        called(outs) ==
            [pm |-> StampDevices(pm, pod.Uid, refs, Len(refs), networkNamespace, pod.Id),
             err |-> IF \A i \in 1..Len(refs) : outs[i].err = "" THEN ""
                     ELSE "NetworkAttachFailed",
             io |-> Flatten([i \in 1..Len(refs) |-> outs[i].calls])]
    IN called([i \in 1..Len(refs) |->
                 call([Deref(pm, pod.Uid, refs[i]) EXCEPT
                          !.PodNetworkNamespace = networkNamespace,
                          !.PodSandboxID = pod.Id])])

\* The loop of RunPodSandbox (cmd = "ADD") and StopPodSandbox ("DEL") over the
\* pod's devices; failDevs are the devices for which the CNI plugin fails.
SandboxLoop(cmd, pm, pod, refs, networkNamespace, failDevs) ==
    LET call(d) ==
            IF cmd = "ADD"
            THEN AttachNetwork(pod, networkNamespace, d, d.Device.DeviceName \in failDevs)
            ELSE DetachNetwork(pod, networkNamespace, d, d.Device.DeviceName \in failDevs)
        stopped(outs, failing, n) ==
            [pm |-> StampDevices(pm, pod.Uid, refs, n, networkNamespace, pod.Id),
             err |-> IF failing = {} THEN "" ELSE "NetworkAttachFailed",
             io |-> Flatten([i \in 1..n |-> outs[i].calls])]
        failed(outs, failing) ==
            stopped(outs, failing,
                    IF failing = {} THEN Len(refs)
                    ELSE CHOOSE i \in failing : \A j \in failing : i <= j)
        called(outs) == failed(outs, {i \in 1..Len(refs) : outs[i].err # ""})
    IN called([i \in 1..Len(refs) |->
                 call([Deref(pm, pod.Uid, refs[i]) EXCEPT
                          !.PodNetworkNamespace = networkNamespace,
                          !.PodSandboxID = pod.Id])])

\* Plugin.RunPodSandbox.
RunPodSandboxCall(pm, pod, claimOrder, failDevs) ==
    LET found(refs, networkNamespace) ==
            IF networkNamespace = "" THEN [pm |-> pm, err |-> "", io |-> <<>>]
            ELSE SandboxLoop("ADD", pm, pod, refs, networkNamespace, failDevs)
    IN IF PMClaimsOfPod(pm, pod.Uid) = {} THEN [pm |-> pm, err |-> "", io |-> <<>>]
       ELSE found(PMGetDevicesByPodUID(pm, pod.Uid, claimOrder), getNetworkNamespace(pod))

\* Plugin.StopPodSandbox.
StopPodSandboxCall(pm, pod, claimOrder, failDevs) ==
    LET found(refs, networkNamespace) ==
            IF networkNamespace = ""
            THEN [pm |-> pm, err |-> StopWithoutNamespace, io |-> <<>>]
            ELSE SandboxLoop("DEL", pm, pod, refs, networkNamespace, failDevs)
    IN IF PMClaimsOfPod(pm, pod.Uid) = {} THEN [pm |-> pm, err |-> "", io |-> <<>>]
       ELSE found(PMGetDevicesByPodUID(pm, pod.Uid, claimOrder), getNetworkNamespace(pod))

(***************************************************************************)
(* Inputs of the hooks.                                                    *)
(***************************************************************************)
LegacyClaims ==
    UNION {{ClaimOf(uid, a, <<>>) : a \in AllocationsOf(uid)} : uid \in ClaimUIDs}

NriClaims ==
    UNION {{ClaimOf(uid, a, rf) : a \in AllocationsOf(uid), rf \in ReservedFors} :
             uid \in ClaimUIDs}

OrdersOf(claim) == KeyOrders(claim.Allocation.Config, claim.Allocation.Results)

LegacyPrepareFaults == {"none", "getCheckpoint", "cdiWrite", "createCheckpoint"}
LegacyUnprepareFaults == {"none", "getCheckpoint", "cdiDelete", "createCheckpoint"}
NriPrepareFaults == {"none", "nadGet", "cdiWrite"}
NriUnprepareFaults == {"none", "cdiDelete"}

\* The faults of the device-state manager can only show for a claim whose
\* processing gets as far as the manager's I/O.
NriFaultsOf(claim) ==
    IF Len(claim.ReservedFor) = 1 /\ claim.Allocation.Results # <<>>
    THEN NriPrepareFaults ELSE {"none"}

LegacyPrepareItems ==
    UNION {{[claim |-> c, fault |-> f, buildOrder |-> bo] :
              f \in LegacyPrepareFaults, bo \in OrdersOf(c)} : c \in LegacyClaims}

NriPrepareItems ==
    UNION {{[claim |-> c, fault |-> f, applyOrder |-> ao, buildOrder |-> bo] :
              f \in NriFaultsOf(c), ao \in OrdersOf(c), bo \in OrdersOf(c)} : c \in NriClaims}

UnprepareItems(faults) == {[uid |-> u, fault |-> f] : u \in ClaimUIDs, f \in faults}

\* The elements batches of two and more claims are made of.
BatchAllocations == {AllocOne, AllocGone, AllocOther}

InBatches(it) ==
    /\ it.fault = "none"
    /\ it.claim.Allocation \in BatchAllocations
    /\ it.claim.ReservedFor \in {<<>>, <<"p1">>}

Batches(all, small) ==
    {<<>>} \cup {<<it>> : it \in all} \cup {b \in SeqsUpTo(small, MaxBatch) : Len(b) >= 2}

LegacyPrepareBatches ==
    Batches(LegacyPrepareItems, {it \in LegacyPrepareItems : InBatches(it)})

NriPrepareBatches ==
    Batches(NriPrepareItems,
            {it \in NriPrepareItems : InBatches(it) /\ it.claim.ReservedFor = <<"p1">>})

\* The prepares of the sandbox scenarios: claims that prepare, no faults.
SandboxPrepareBatches ==
    {<<it>> : it \in {i \in NriPrepareItems :
                        /\ i.fault = "none"
                        /\ i.applyOrder = i.buildOrder
                        /\ i.claim.Allocation \in {AllocOne, AllocTwo, AllocOther}
                        /\ i.claim.ReservedFor \in {<<"p1">>, <<"p2">>}}}

SandboxUnprepareBatches == {<<it>> : it \in UnprepareItems({"none"})}

UnprepareBatches(faults) ==
    Batches(UnprepareItems(faults), {it \in UnprepareItems(faults) : it.fault = "none"})

(***************************************************************************)
(* The batch loops of the four hooks and their return values.              *)
(***************************************************************************)
RECURSIVE LegacyPrepareLoop(_, _, _)
LegacyPrepareLoop(cat, st, batch) ==
    IF batch = <<>> THEN st
    ELSE LegacyPrepareLoop(cat, LegacyPrepareItem(cat, st, Head(batch)), Tail(batch))

RECURSIVE LegacyUnprepareLoop(_, _)
LegacyUnprepareLoop(st, batch) ==
    IF batch = <<>> THEN st
    ELSE LegacyUnprepareLoop(LegacyUnprepareItem(st, Head(batch)), Tail(batch))

RECURSIVE NriPrepareLoop(_, _, _)
NriPrepareLoop(cat, st, batch) ==
    IF batch = <<>> THEN st
    ELSE NriPrepareLoop(cat, NriPrepareItem(cat, st, Head(batch)), Tail(batch))

RECURSIVE NriUnprepareLoop(_, _)
NriUnprepareLoop(st, batch) ==
    IF batch = <<>> THEN st
    ELSE NriUnprepareLoop(NriUnprepareItem(st, Head(batch)), Tail(batch))

\* result[claim.UID] = ...: the last outcome of every UID of the batch.
ResultMap(items) ==
    [u \in {items[i].uid : i \in 1..Len(items)} |->
        LET last == CHOOSE i \in 1..Len(items) :
                       items[i].uid = u /\ \A j \in 1..Len(items) : items[j].uid = u => j <= i
        IN [err |-> items[last].err, devices |-> items[last].devices]]

\* A hook that reports the first failed claim as its own error.
BatchErrorFirstFailure(items) ==
    IF \E i \in 1..Len(items) : items[i].err # "" THEN "BatchFailed" ELSE ""

\* return result, nil
BatchError(items) == ""

BatchUID(it) == IF "claim" \in DOMAIN it THEN it.claim.UID ELSE it.uid

Returned(op, batch, st) ==
    [op |-> op, batch |-> [i \in 1..Len(batch) |-> BatchUID(batch[i])],
     items |-> st.items, result |-> ResultMap(st.items),
     topErr |-> BatchError(st.items)]

(***************************************************************************)
(* The driver as a state machine.  path is the device-state subsystem the  *)
(* driver was built with.                                                  *)
(***************************************************************************)
NoCall == [op |-> "none", batch |-> <<>>, items |-> <<>>, result |-> <<>>, topErr |-> ""]

NoSession == [phase |-> "idle"]

\* The plugin process while it serves the kubelet and the runtime.
Serving == [phase |-> "serving"]

Init ==
    /\ path \in {"legacy", "nri"}
    /\ allocatable = DiscoveredCatalog
    /\ checkpointFile = MarshalCheckpoint(NewCheckpoint)
    /\ cdiFiles = {}
    /\ podManager = NewPodManager
    /\ firstPrepared = NoFirst
    /\ lastCall = NoCall
    /\ cniSession = NoSession
    /\ process = Serving

Folded == FoldState(checkpointFile, cdiFiles, podManager, firstPrepared, <<>>)

\* A driver that takes the devices it prepared out of the catalog.
AllocatableAfterTakesPrepared(cat, items) ==
    LET taken == UNION {{items[i].devices[j].DeviceName :
                           j \in 1..Len(items[i].devices)} :
                              i \in {k \in 1..Len(items) : items[k].err = ""}}
    IN [d \in DOMAIN cat \ taken |-> cat[d]]

\* The hooks index s.allocatable (allocatable[result.Device]) and never
\* assign to it or to an entry of it: the catalog a hook leaves behind.
AllocatableAfter(cat, items) == cat

Commit(op, batch, st) ==
    /\ checkpointFile' = st.ckpt
    /\ cdiFiles' = st.cdi
    /\ podManager' = st.pm
    /\ firstPrepared' = st.first
    /\ lastCall' = Returned(op, batch, st)
    /\ allocatable' = AllocatableAfter(allocatable, st.items)
    /\ UNCHANGED <<path, cniSession, process>>

\* pkg/driver/driver.go PrepareResourceClaims.
PrepareResourceClaimsOf(batches) ==
    /\ path = "legacy"
    /\ \E batch \in batches :
          Commit("PrepareResourceClaims", batch, LegacyPrepareLoop(allocatable, Folded, batch))

PrepareResourceClaimsLegacy == PrepareResourceClaimsOf(LegacyPrepareBatches)

\* pkg/driver/driver.go UnprepareResourceClaims.
UnprepareResourceClaimsLegacy ==
    /\ path = "legacy"
    /\ \E batch \in UnprepareBatches(LegacyUnprepareFaults) :
          Commit("UnprepareResourceClaims", batch, LegacyUnprepareLoop(Folded, batch))

\* pkg/driver/dra_hook.go PrepareResourceClaims.
PrepareResourceClaims(batches) ==
    /\ path = "nri"
    /\ \E batch \in batches :
          Commit("PrepareResourceClaims", batch, NriPrepareLoop(allocatable, Folded, batch))

\* pkg/driver/dra_hook.go UnprepareResourceClaims.
UnprepareResourceClaims(batches) ==
    /\ path = "nri"
    /\ \E batch \in batches :
          Commit("UnprepareResourceClaims", batch, NriUnprepareLoop(Folded, batch))

\* The list of the pod's devices a hook ranges over once it has found the
\* pod's devices and its network namespace.
SandboxList(pm, pod, claimOrder) ==
    IF PMClaimsOfPod(pm, pod.Uid) = {} \/ getNetworkNamespace(pod) = "" THEN <<>>
    ELSE PMGetDevicesByPodUID(pm, pod.Uid, claimOrder)

\* What a hook call leaves behind: its answer and its CNI calls, the list it
\* ranged over and the positions of the devices for which the plugin fails.
SandboxReturned(op, pod, claimOrder, failDevs, o) ==
    [op |-> op, pod |-> pod, err |-> o.err, io |-> o.io,
     hadDevices |-> PMClaimsOfPod(podManager, pod.Uid) # {},
     list |-> SandboxList(podManager, pod, claimOrder),
     failing |-> {i \in 1..Len(SandboxList(podManager, pod, claimOrder)) :
                     Deref(podManager, pod.Uid,
                           SandboxList(podManager, pod, claimOrder)[i]).Device.DeviceName
                        \in failDevs},
     batch |-> <<>>, items |-> <<>>, result |-> <<>>, topErr |-> ""]

\* The interfaces the CNI plugin has added to sandboxes and not deleted, as
\* (sandbox ID, PCI address) pairs, where the process keeps track of them:
\* an ADD that succeeds adds its pair, a DEL removes it.
AttachedAfter(p, op, pod, failDevs, o) ==
    LET failed == {allocatable[d].pciAddress : d \in failDevs \cap DOMAIN allocatable}
        called == {o.io[k].conf.deviceID : k \in 1..Len(o.io)}
        pairs(devs) == {<<pod.Id, dev>> : dev \in devs}
    IN IF "attached" \notin DOMAIN p THEN p
       ELSE IF op = "RunPodSandbox"
       THEN [p EXCEPT !.attached = @ \cup pairs(called \ failed)]
       ELSE [p EXCEPT !.attached = @ \ pairs(called)]

SandboxCommit(op, pod, claimOrder, failDevs, o) ==
    /\ podManager' = o.pm
    /\ lastCall' = SandboxReturned(op, pod, claimOrder, failDevs, o)
    /\ allocatable' = AllocatableAfter(allocatable, <<>>)
    /\ process' = AttachedAfter(process, op, pod, failDevs, o)
    /\ UNCHANGED <<path, checkpointFile, cdiFiles, firstPrepared, cniSession>>

FailDevSets == {{}, {Dev1}, {Dev2}}

RunPodSandbox ==
    /\ path = "nri"
    /\ \E pod \in Sandboxes, failDevs \in FailDevSets :
       \E claimOrder \in Perms(PMClaimsOfPod(podManager, pod.Uid)) :
          SandboxCommit("RunPodSandbox", pod, claimOrder, failDevs,
                        RunPodSandboxCall(podManager, pod, claimOrder, failDevs))

StopPodSandbox ==
    /\ path = "nri"
    /\ \E pod \in Sandboxes, failDevs \in FailDevSets :
       \E claimOrder \in Perms(PMClaimsOfPod(podManager, pod.Uid)) :
          SandboxCommit("StopPodSandbox", pod, claimOrder, failDevs,
                        StopPodSandboxCall(podManager, pod, claimOrder, failDevs))

Next ==
    \/ PrepareResourceClaimsLegacy
    \/ UnprepareResourceClaimsLegacy
    \/ PrepareResourceClaims(NriPrepareBatches)
    \/ UnprepareResourceClaims(UnprepareBatches(NriUnprepareFaults))

Spec == Init /\ [][Next]_vars

(***************************************************************************)
(* The NRI-integrated driver with the sandbox hooks.                       *)
(***************************************************************************)
InitSandbox == Init /\ path = "nri"

NextSandbox ==
    \/ PrepareResourceClaims(SandboxPrepareBatches)
    \/ UnprepareResourceClaims(SandboxUnprepareBatches)
    \/ RunPodSandbox
    \/ StopPodSandbox

SpecSandbox == InitSandbox /\ [][NextSandbox]_vars

(***************************************************************************)
(* Config resolution on its own: Init draws a claim's config list and its  *)
(* allocation results, the one action resolves them.                       *)
(***************************************************************************)
ConfigChoices ==
    {OpaqueCfg(reqs, VfConfigOf(nad, "eth1")) :
        reqs \in {{}, {"a"}, {"b"}}, nad \in {"net1", "net2"}}

ResultChoices == {Result("a", Dev1), Result("b", Dev2)}

ResolveInput(configs, results) ==
    [op |-> "getConfigResultsMap", configs |-> configs, results |-> results,
     done |-> FALSE, keys |-> <<>>, map |-> <<>>]

InitConfig ==
    /\ path = "nri"
    /\ allocatable = DiscoveredCatalog
    /\ checkpointFile = MarshalCheckpoint(NewCheckpoint)
    /\ cdiFiles = {}
    /\ podManager = NewPodManager
    /\ firstPrepared = NoFirst
    /\ cniSession = NoSession
    /\ process = Serving
    /\ lastCall \in {ResolveInput(c, r) : c \in SeqsUpTo(ConfigChoices, CfgMaxLen),
                                          r \in SeqsUpTo(ResultChoices, ResMaxLen)}

\* getConfigResultsMap applied to the drawn claim; keys are the config
\* objects the map is keyed by.
ResolveConfigs ==
    /\ ~lastCall.done
    /\ lastCall' = [lastCall EXCEPT
                      !.done = TRUE,
                      !.keys = InsertDefault(lastCall.configs),
                      !.map = getConfigResultsMap(lastCall.configs, lastCall.results)]
    /\ UNCHANGED <<path, allocatable, checkpointFile, cdiFiles, podManager,
                   firstPrepared, cniSession, process>>

NextConfig == ResolveConfigs

SpecConfig == InitConfig /\ [][NextConfig]_vars

(***************************************************************************)
(* The CNI runtime on its own: one device of one sandbox is attached and   *)
(* then detached.                                                          *)
(***************************************************************************)
CniDeviceConfigs ==
    {[IfName |-> ifn, NetAttachDefConfig |-> [type |-> t, name |-> n]] :
        ifn \in {"eth1", "net1"}, t \in {"sriov", ""}, n \in {"net1", ""}}

CniSandboxes == {pod \in Sandboxes : getNetworkNamespace(pod) # ""}

CniNamespaces == {NetNsOf(p) : p \in PodUIDs}

CniAttach ==
    /\ cniSession.phase = "idle"
    /\ \E pod \in CniSandboxes, ns \in CniNamespaces, dev \in CniDeviceConfigs,
          cniFails \in BOOLEAN :
          cniSession' = [phase |-> "attached", pod |-> pod, ns |-> ns, dev |-> dev,
                         attach |-> AttachNetwork(pod, ns, dev, cniFails),
                         detach |-> [err |-> "", calls |-> <<>>]]
    /\ UNCHANGED <<path, allocatable, checkpointFile, cdiFiles, podManager,
                   firstPrepared, lastCall, process>>

CniDetach ==
    /\ cniSession.phase = "attached"
    /\ \E cniFails \in BOOLEAN :
          cniSession' = [cniSession EXCEPT
                           !.phase = "detached",
                           !.detach = DetachNetwork(cniSession.pod, cniSession.ns,
                                                    cniSession.dev, cniFails)]
    /\ UNCHANGED <<path, allocatable, checkpointFile, cdiFiles, podManager,
                   firstPrepared, lastCall, process>>

InitCni == Init /\ path = "nri"

NextCni ==
    \/ CniAttach
    \/ CniDetach

SpecCni == InitCni /\ [][NextCni]_vars

(***************************************************************************)
(* Properties.  lastCall holds the outcome of the hook that ran last: per  *)
(* claim of the batch its input, its return value, the I/O it performed,   *)
(* and what was on record before and after it.                             *)
(***************************************************************************)
PrepareReturned == lastCall.op = "PrepareResourceClaims"

UnprepareReturned == lastCall.op = "UnprepareResourceClaims"

ItemsReturned == {lastCall.items[i] : i \in 1..Len(lastCall.items)}

IOOps(it) == {it.io[j].op : j \in 1..Len(it.io)}

\* C1: on the legacy path, a Prepare of a claim whose earlier Prepare
\* succeeded and that was not unprepared since returns the device list of
\* the first Prepare and writes neither a CDI spec file nor the checkpoint.
C1_RepeatedPrepareWritesNothing ==
    (path = "legacy" /\ PrepareReturned) =>
        \A it \in ItemsReturned :
            (it.repeat /\ it.err = "") =>
                /\ it.devices = it.firstDevices
                /\ IOOps(it) \cap {"CreateClaimSpecFile", "CreateCheckpoint"} = {}
                /\ ~it.changed

\* C2: on the pod-manager path, PrepareResourceClaims for a (pod, claim)
\* pair whose earlier prepare succeeded and that was not unprepared since
\* succeeds, returns the devices of the first prepare, and calls neither
\* PrepareDevices nor anything below it; nothing on record changes.
C2_RepeatedPrepareReturnsRecorded ==
    (path = "nri" /\ PrepareReturned) =>
        \A it \in ItemsReturned :
            (Len(it.in.claim.ReservedFor) = 1 /\ it.repeat) =>
                /\ it.err = ""
                /\ it.devices = it.firstDevices
                /\ it.io = <<>>
                /\ ~it.changed

C2_Witness ==
    /\ path = "nri" /\ PrepareReturned
    /\ \E it \in ItemsReturned :
          /\ Len(it.in.claim.ReservedFor) = 1 /\ it.repeat
          /\ it.err = "" /\ Len(it.devices) = 2

\* C3: after an unprepare that returned success for a claim that had been
\* prepared, no CDI spec file of the claim exists and neither the
\* checkpoint's PreparedClaims nor the pod manager has an entry for it.
C3_UnprepareLeavesNothing ==
    UnprepareReturned =>
        \A it \in ItemsReturned :
            (it.known /\ it.err = "") => (~it.fileAfter /\ ~it.recordAfter)

\* C4: an unprepare of a claim UID that was never prepared, or was
\* unprepared since, changes neither the CDI directory nor the checkpoint
\* nor the pod manager, writes and deletes nothing, and returns success
\* (on the legacy path: unless the checkpoint could not be read).
C4_UnprepareUnknownIsNoop ==
    UnprepareReturned =>
        \A it \in ItemsReturned :
            ~it.known =>
                /\ ~it.changed
                /\ IOOps(it) \subseteq {"GetCheckpoint"}
                /\ \/ it.err = ""
                   \/ path = "legacy" /\ it.in.fault = "getCheckpoint"

C4_Witness ==
    /\ UnprepareReturned
    /\ cdiFiles # {}
    /\ \E it \in ItemsReturned : ~it.known /\ it.err = "" /\ it.in.fault # "getCheckpoint"

\* C5: a claim whose ReservedFor has no entry gets the per-claim error
\* NoPodInfo, one with more than one entry MultiplePodsUnsupported;
\* PrepareDevices is not called for it, and the pod manager and the CDI
\* directory stay as they were.
C5_ReservedForRejected ==
    (path = "nri" /\ PrepareReturned) =>
        \A it \in ItemsReturned :
            Len(it.in.claim.ReservedFor) # 1 =>
                /\ it.err = IF Len(it.in.claim.ReservedFor) = 0
                            THEN "NoPodInfo" ELSE "MultiplePodsUnsupported"
                /\ it.io = <<>>
                /\ ~it.changed

C5_Witness ==
    /\ path = "nri" /\ PrepareReturned
    /\ \E it \in ItemsReturned :
          /\ Len(it.in.claim.ReservedFor) = 2
          /\ it.in.claim.Allocation = AllocOne
          /\ it.err = "MultiplePodsUnsupported"

\* A claim that prepares when nothing in its environment fails.
WellFormed(it) ==
    /\ it.in.fault = "none"
    /\ it.in.claim.Allocation \in {AllocOne, AllocTwo, AllocOther}
    /\ path = "nri" => it.in.claim.ReservedFor \in {<<"p1">>, <<"p2">>}

\* C6: a batch hook returns a nil top-level error and a map with one result
\* for every claim UID of the batch; every claim of the batch is processed,
\* in order, and a well-formed claim succeeds whatever happened to the
\* claims before it.
C6_BatchIsolation ==
    (PrepareReturned \/ UnprepareReturned) =>
        /\ lastCall.topErr = ""
        /\ DOMAIN lastCall.result = Range(lastCall.batch)
        /\ Len(lastCall.items) = Len(lastCall.batch)
        /\ \A i \in 1..Len(lastCall.items) :
              LET it == lastCall.items[i]
              IN /\ it.uid = lastCall.batch[i]
                 /\ (PrepareReturned /\ WellFormed(it)) => it.err = ""
                 /\ (UnprepareReturned /\ it.in.fault = "none") => it.err = ""

C6_Witness ==
    /\ PrepareReturned
    /\ Len(lastCall.items) = 2
    /\ lastCall.items[1].err # ""
    /\ lastCall.items[2].err = ""
    /\ lastCall.items[1].uid # lastCall.items[2].uid
    /\ lastCall.topErr = ""

ConfigsResolved == lastCall.op = "getConfigResultsMap" /\ lastCall.done

\* The keys a result was appended to.
KeysOf(r) == {k \in DOMAIN lastCall.map :
                 \E j \in 1..Len(lastCall.map[k]) : lastCall.map[k][j] = r}

MapSize == Len(Flatten([k \in 1..Len(lastCall.keys) |-> lastCall.map[k]]))

\* The positions of the claim's config list that name the request, and the
\* positions that name no request at all.
ScopedTo(request) ==
    {j \in 1..Len(lastCall.configs) : request \in lastCall.configs[j].Requests}

CatchAlls == {j \in 1..Len(lastCall.configs) : lastCall.configs[j].Requests = {}}

Last(S) == CHOOSE j \in S : \A k \in S : k <= j

\* C7: every allocation result is put under exactly one config: the last
\* config of the claim's list whose request list is empty or contains the
\* result's request, and the default config when the claim's list has no
\* such config.  With one config scoped to request a, the result of a gets
\* that config and the result of b the default.
C7_ConfigResolution ==
    ConfigsResolved =>
        /\ MapSize = Len(lastCall.results)
        /\ \A i \in 1..Len(lastCall.results) :
              LET r == lastCall.results[i]
                  m == ScopedTo(r.Request) \cup CatchAlls
              IN /\ Cardinality(KeysOf(r)) = 1
                 /\ \A k \in KeysOf(r) :
                       lastCall.keys[k] = IF m = {} THEN OpaqueCfg({}, DefaultVfConfig)
                                          ELSE lastCall.configs[Last(m)]
        /\ (Len(lastCall.configs) = 1 /\ lastCall.configs[1].Requests = {"a"}) =>
              /\ \A k \in KeysOf(Result("a", Dev1)) : lastCall.keys[k] = lastCall.configs[1]
              /\ \A k \in KeysOf(Result("b", Dev2)) :
                    lastCall.keys[k] = OpaqueCfg({}, DefaultVfConfig)

C7_Witness ==
    /\ ConfigsResolved
    /\ lastCall.configs = <<OpaqueCfg({"a"}, VfConfigOf("net1", "eth1"))>>
    /\ lastCall.results = <<Result("a", Dev1), Result("b", Dev2)>>
    /\ lastCall.map[2] = <<Result("a", Dev1)>>
    /\ lastCall.map[1] = <<Result("b", Dev2)>>

\* C8 as claimed: whenever a config of the claim names the result's
\* request, the config applied to the result is one that names it, wherever
\* the catch-all configs stand in the list.
C8_ScopedWinsWhateverTheOrder ==
    ConfigsResolved =>
        \A i \in 1..Len(lastCall.results) :
            LET r == lastCall.results[i]
            IN ScopedTo(r.Request) # {} =>
                  \A k \in KeysOf(r) : r.Request \in lastCall.keys[k].Requests

\* C8: a config that names the result's request is applied in preference
\* to the default config, and in preference to a catch-all config of the
\* claim exactly when it stands later in the claim's config list; a
\* catch-all that stands after every config naming the request is applied
\* instead of them.
C8_LaterConfigWins ==
    ConfigsResolved =>
        \A i \in 1..Len(lastCall.results) :
            LET r == lastCall.results[i]
                scoped == ScopedTo(r.Request)
            IN /\ (scoped # {} /\ \A c \in CatchAlls : c < Last(scoped)) =>
                     \A k \in KeysOf(r) : lastCall.keys[k] = lastCall.configs[Last(scoped)]
               /\ (CatchAlls # {} /\ \A j \in scoped : j < Last(CatchAlls)) =>
                     \A k \in KeysOf(r) : lastCall.keys[k] = lastCall.configs[Last(CatchAlls)]

C8_Witness ==
    /\ ConfigsResolved
    /\ lastCall.configs = <<OpaqueCfg({"a"}, VfConfigOf("net1", "eth1")),
                            OpaqueCfg({}, VfConfigOf("net2", "eth1"))>>
    /\ lastCall.results = <<Result("a", Dev1)>>
    /\ lastCall.map[3] = <<Result("a", Dev1)>>

SandboxReturnedWithoutNamespace ==
    /\ lastCall.op \in {"RunPodSandbox", "StopPodSandbox"}
    /\ getNetworkNamespace(lastCall.pod) = ""

\* C9 as claimed: for every sandbox without a network-namespace entry
\* RunPodSandbox returns success and StopPodSandbox an error, both without
\* a CNI call.
C9_StopWithoutNamespaceAlwaysFails ==
    SandboxReturnedWithoutNamespace =>
        /\ lastCall.io = <<>>
        /\ lastCall.op = "RunPodSandbox" => lastCall.err = ""
        /\ lastCall.op = "StopPodSandbox" => lastCall.err # ""

\* C9: for every sandbox without a network-namespace entry no CNI call is
\* made; RunPodSandbox returns success; StopPodSandbox returns an error
\* when the pod manager holds prepared devices of the pod, and success when
\* it holds none.
C9_WithoutNamespace ==
    SandboxReturnedWithoutNamespace =>
        /\ lastCall.io = <<>>
        /\ lastCall.op = "RunPodSandbox" => lastCall.err = ""
        /\ lastCall.op = "StopPodSandbox" => (lastCall.err # "" <=> lastCall.hadDevices)

C9_Witness ==
    /\ SandboxReturnedWithoutNamespace
    /\ lastCall.op = "StopPodSandbox"
    /\ lastCall.hadDevices
    /\ lastCall.err = "NoNetworkNamespace"
    /\ lastCall.io = <<>>

NetClass == 2

Digits == <<"1", "2", "3", "4">>

PciAddr(bus, fn) == <<"0000", ":", bus, ":", "00", ".", fn>>

\* The two PCI device slots of the sysfs states: their address and IDs.
PciSlots == {1, 2}

SlotBus(i) == IF i = 1 THEN "01" ELSE "02"

SlotVendor(i) == IF i = 1 THEN "15b3" ELSE "8086"

SlotProduct(i) == IF i = 1 THEN "101e" ELSE "1572"

SlotNetName(i) == IF i = 1 THEN "ens1f0" ELSE "ens2f0"

\* The directory of a PCI device: virtfn<k> symlinks to its VFs, the net
\* directory, and possibly a virtfn entry that is not a symlink.
VirtfnEntries(i, nvf, stale) ==
    [k \in 1..nvf |-> [name |-> <<"virtfn", Digits[k]>>, link |-> TRUE,
                       target |-> <<"..", PciAddr(SlotBus(i), Digits[k])>>]] \o
    <<[name |-> <<"net">>, link |-> FALSE, target |-> <<>>]>> \o
    (IF stale THEN <<[name |-> <<"virtfn", "x">>, link |-> FALSE, target |-> <<>>]>>
     ELSE <<>>)

PciDevice(i, class, physfn, named, nvf, stale) ==
    [Address |-> PciAddr(SlotBus(i), "0"), Class |-> class,
     Vendor |-> SlotVendor(i), Product |-> SlotProduct(i),
     physfn |-> physfn,
     net |-> IF named THEN <<SlotNetName(i)>> ELSE <<>>,
     entries |-> VirtfnEntries(i, nvf, stale)]

ClassIDs == {"02", "01", "zz"}

SlotDevices(i) ==
    {PciDevice(i, class, physfn, named, nvf, stale) :
        class \in ClassIDs, physfn \in BOOLEAN, named \in BOOLEAN,
        nvf \in 0..MaxVFs, stale \in IF i = 1 THEN BOOLEAN ELSE {FALSE}}

\* pci.Devices of the sysfs states: none, the first slot, or both slots.
SysfsStates ==
    {<<>>} \cup {<<d>> : d \in SlotDevices(1)} \cup
    {<<d, e>> : d \in SlotDevices(1), e \in SlotDevices(2)}

DiscoveryFaults == {"none", "pci", "readdir"}

\* strconv.ParseInt(device.Class.ID, 16, 64) on the class IDs of the world.
ParseClass(id) ==
    CASE id = "02" -> [ok |-> TRUE, value |-> 2]
      [] id = "01" -> [ok |-> TRUE, value |-> 1]
      [] OTHER -> [ok |-> FALSE, value |-> 0]

\* A check that takes every device for a PF candidate.
IsSriovVFNever(device) == FALSE

\* Helpers.IsSriovVF: the physfn symlink exists.
IsSriovVF(device) == device.physfn

\* Helpers.TryGetInterfaceName: the first entry of the net directory.
TryGetInterfaceName(device) == IF Len(device.net) = 0 THEN "" ELSE device.net[1]

\* Helpers.GetNicSriovMode.
GetNicSriovMode(device) == "legacy"

\* The first loop of DiscoverSriovDevices: does the device become a PF.
AcceptedPF(device) ==
    /\ ParseClass(device.Class).ok
    /\ ParseClass(device.Class).value = NetClass
    /\ ~IsSriovVF(device)
    /\ TryGetInterfaceName(device) # ""

PFInfoOf(device) ==
    [PciAddress |-> device.Address, NetName |-> TryGetInterfaceName(device),
     VendorID |-> device.Vendor, DeviceID |-> device.Product,
     Address |-> device.Address, EswitchMode |-> GetNicSriovMode(device),
     entries |-> device.entries]

\* strings.HasPrefix(entry.Name(), "virtfn")
HasVirtfnPrefix(name) == name[1] = "virtfn"

\* filepath.Base(target)
Base(target) == target[Len(target)]

\* Helpers.GetVFList: the targets of the virtfn entries that read as links.
GetVFList(entries) ==
    LET listed(links) == [k \in 1..Len(links) |-> Base(links[k].target)]
    IN listed(SelectSeq(entries, LAMBDA e : HasVirtfnPrefix(e.name) /\ e.link))

\* strings.ReplaceAll on a tokenised string.
ReplaceAll(str, old, new) == [k \in 1..Len(str) |-> IF str[k] = old THEN new ELSE str[k]]

\* A device name with the colons replaced only.
DeviceNameColonsOnly(vfPciAddress) == ReplaceAll(vfPciAddress, ":", "-")

\* deviceName := ReplaceAll(ReplaceAll(vfPciAddress, ":", "-"), ".", "-")
DeviceNameOf(vfPciAddress) == ReplaceAll(ReplaceAll(vfPciAddress, ":", "-"), ".", "-")

\* resourceList[deviceName] = ...: per key the last write of the loops.
ResourceList(pfList) ==
    LET writes == Flatten([i \in 1..Len(pfList) |->
                     [k \in 1..Len(GetVFList(pfList[i].entries)) |->
                        [key |-> DeviceNameOf(GetVFList(pfList[i].entries)[k]),
                         attrs |-> [vendor |-> pfList[i].VendorID,
                                    deviceID |-> pfList[i].DeviceID,
                                    pciAddress |-> GetVFList(pfList[i].entries)[k],
                                    PFName |-> pfList[i].NetName,
                                    eswitchMode |-> pfList[i].EswitchMode]]]])
        listed(ws) ==
            [key \in {ws[n].key : n \in 1..Len(ws)} |->
                ws[CHOOSE n \in 1..Len(ws) :
                      /\ ws[n].key = key
                      /\ \A o \in 1..Len(ws) : ws[o].key = key => o <= n].attrs]
    IN listed(writes)

\* A discovery that takes an empty PCI device list for a host without VFs.
DiscoverSriovDevicesEmptyOk(devices, fault) ==
    LET found(pfList) ==
            IF fault = "readdir" /\ Len(pfList) > 0
            THEN [err |-> "DiscoveryFailure", catalog |-> <<>>]
            ELSE [err |-> "", catalog |-> ResourceList(pfList)]
        accepted(pfs) == found([i \in 1..Len(pfs) |-> PFInfoOf(pfs[i])])
    IN IF fault = "pci"
       THEN [err |-> "DiscoveryFailure", catalog |-> <<>>]
       ELSE accepted(SelectSeq(devices, AcceptedPF))

\* DiscoverSriovDevices over a sysfs state; fault is the call that fails.
DiscoverSriovDevices(devices, fault) ==
    LET found(pfList) ==
            IF fault = "readdir" /\ Len(pfList) > 0
            THEN [err |-> "DiscoveryFailure", catalog |-> <<>>]
            ELSE [err |-> "", catalog |-> ResourceList(pfList)]
        accepted(pfs) == found([i \in 1..Len(pfs) |-> PFInfoOf(pfs[i])])
    IN IF fault = "pci" \/ Len(devices) = 0
       THEN [err |-> "DiscoveryFailure", catalog |-> <<>>]
       ELSE accepted(SelectSeq(devices, AcceptedPF))

DiscoveryInput(devices, fault) ==
    [op |-> "DiscoverSriovDevices", devices |-> devices, fault |-> fault,
     done |-> FALSE, err |-> "", catalog |-> <<>>]

InitDiscovery ==
    /\ path = "nri"
    /\ allocatable = DiscoveredCatalog
    /\ checkpointFile = MarshalCheckpoint(NewCheckpoint)
    /\ cdiFiles = {}
    /\ podManager = NewPodManager
    /\ firstPrepared = NoFirst
    /\ cniSession = NoSession
    /\ process = Serving
    /\ lastCall \in {DiscoveryInput(d, f) : d \in SysfsStates, f \in DiscoveryFaults}

DiscoveryCommit(o) ==
    /\ lastCall' = [lastCall EXCEPT !.done = TRUE, !.err = o.err, !.catalog = o.catalog]
    /\ UNCHANGED <<path, allocatable, checkpointFile, cdiFiles, podManager,
                   firstPrepared, cniSession, process>>

Discover ==
    /\ ~lastCall.done
    /\ DiscoveryCommit(DiscoverSriovDevices(lastCall.devices, lastCall.fault))

NextDiscovery == Discover

SpecDiscovery == InitDiscovery /\ [][NextDiscovery]_vars

Discovered ==
    lastCall.op = "DiscoverSriovDevices" /\ lastCall.done /\ lastCall.err = ""

\* The VF symlinks of a device: the virtfn entries that are symlinks.
VFLinks(device) ==
    {k \in 1..Len(device.entries) :
        device.entries[k].name[1] = "virtfn" /\ device.entries[k].link}

\* The devices of the sysfs state the discovery has to accept as PFs.
NetworkPFs ==
    {i \in 1..Len(lastCall.devices) :
        /\ lastCall.devices[i].Class = "02"
        /\ ~lastCall.devices[i].physfn
        /\ lastCall.devices[i].net # <<>>}

\* C11: a discovery that returns a catalog returns one entry per VF symlink
\* of every network-class, non-VF device that has an interface name: keyed
\* by the VF's PCI address with ':' and '.' replaced by '-', with the VF's
\* own address as PCI address and the vendor ID, device ID, interface name
\* and eswitch mode of its parent; nothing else is in the catalog, so a PF
\* without an interface name contributes no entry.
C11_OneEntryPerVF ==
    Discovered =>
        LET links == {<<i, k>> \in (1..Len(lastCall.devices)) \X (1..(MaxVFs + 2)) :
                         i \in NetworkPFs /\ k \in VFLinks(lastCall.devices[i])}
            vfOf(l) == lastCall.devices[l[1]].entries[l[2]].target[2]
            keyOf(l) == [n \in 1..7 |-> IF vfOf(l)[n] \in {":", "."} THEN "-" ELSE vfOf(l)[n]]
        IN /\ Cardinality(DOMAIN lastCall.catalog) = Cardinality(links)
           /\ \A l \in links :
                 /\ keyOf(l) \in DOMAIN lastCall.catalog
                 /\ lastCall.catalog[keyOf(l)] =
                       [vendor |-> lastCall.devices[l[1]].Vendor,
                        deviceID |-> lastCall.devices[l[1]].Product,
                        pciAddress |-> vfOf(l),
                        PFName |-> lastCall.devices[l[1]].net[1],
                        eswitchMode |-> "legacy"]

C11_Witness ==
    /\ Discovered
    /\ Len(lastCall.devices) = 2
    /\ NetworkPFs = {2}
    /\ lastCall.devices[1].Class = "02" /\ lastCall.devices[1].net = <<>>
    /\ VFLinks(lastCall.devices[1]) # {}
    /\ DOMAIN lastCall.catalog = {<<"0000", "-", "02", "-", "00", "-", "1">>,
                                  <<"0000", "-", "02", "-", "00", "-", "2">>}

\* C12: no entry of the catalog is a VF of a device whose class is not the
\* network class or that has a physfn symlink, whatever virtfn symlinks and
\* interface names that device has.
C12_NoForeignParent ==
    Discovered =>
        \A i \in 1..Len(lastCall.devices) :
            (lastCall.devices[i].Class # "02" \/ lastCall.devices[i].physfn) =>
                \A key \in DOMAIN lastCall.catalog :
                    /\ key[3] # lastCall.devices[i].Address[3]
                    /\ lastCall.catalog[key].PFName # SlotNetName(i)
                    /\ lastCall.catalog[key].vendor # lastCall.devices[i].Vendor

C12_Witness ==
    /\ Discovered
    /\ Len(lastCall.devices) = 2
    /\ lastCall.devices[1].Class = "01" /\ ~lastCall.devices[1].physfn
    /\ lastCall.devices[1].net # <<>> /\ VFLinks(lastCall.devices[1]) # {}
    /\ lastCall.devices[2].Class = "02" /\ lastCall.devices[2].physfn
    /\ lastCall.devices[2].net # <<>> /\ VFLinks(lastCall.devices[2]) # {}
    /\ DOMAIN lastCall.catalog = {}

(***************************************************************************)
(* Checkpoint encoding (package checkpoint).  The serialized form is the   *)
(* JSON document: the checksum, the name of the claims key as it stands in *)
(* the bytes, and the claims payload, left out when the map is empty.  The *)
(* checksum of a byte string stands for the string itself.                 *)
(***************************************************************************)
ZeroChecksum == <<>>

\* checksum.New(out)
ChecksumNew(out) == <<out>>

\* The claims key of the JSON document: its first letter and the rest.
ClaimsKey == <<"p", "reparedClaims">>

ToLower(c) == IF c = "P" THEN "p" ELSE c

\* encoding/json matches an object key to a field ignoring case.
EqualFold(a, b) == ToLower(a[1]) = ToLower(b[1]) /\ a[2] = b[2]

CheckpointOf(pc) == [Checksum |-> ZeroChecksum, PreparedClaims |-> pc]

\* json.Marshal(*cp): preparedClaims is omitempty.
JsonMarshal(cp) ==
    [checksum |-> cp.Checksum, key |-> ClaimsKey,
     omitted |-> \A uid \in ClaimUIDs : ~cp.PreparedClaims[uid].present,
     claims |-> MarshalCheckpoint(cp.PreparedClaims)]

\* Checkpoint.MarshalCheckpoint
MarshalCheckpointBytes(cp) ==
    JsonMarshal([cp EXCEPT !.Checksum =
                    ChecksumNew(JsonMarshal([cp EXCEPT !.Checksum = ZeroChecksum]))])

\* Checkpoint.UnmarshalCheckpoint into a zero Checkpoint: json.Unmarshal.
UnmarshalCheckpointBytes(data) ==
    [Checksum |-> data.checksum,
     PreparedClaims |-> IF ~data.omitted /\ EqualFold(data.key, ClaimsKey)
                        THEN UnmarshalCheckpoint(data.claims)
                        ELSE NewCheckpoint]

\* A verification that accepts every checkpoint.
VerifyChecksumAlways(cp) == TRUE

\* Checkpoint.VerifyChecksum: TRUE for the nil error.
VerifyChecksum(cp) ==
    cp.Checksum = ChecksumNew(JsonMarshal([cp EXCEPT !.Checksum = ZeroChecksum]))

\* The device lists the legacy Prepare records for a claim.
RecordedDevices(uid) ==
    UNION {{LegacyPrepareDevices(DiscoveredCatalog, claim, order).devices :
               order \in {o \in OrdersOf(claim) :
                             LegacyPrepareDevices(DiscoveredCatalog, claim, o).err = ""}} :
             claim \in {ClaimOf(uid, a, <<>>) : a \in AllocationsOf(uid) \ {NoAllocation}}}

Checkpoints ==
    {CheckpointOf(pc) :
        pc \in {f \in [ClaimUIDs -> [present : BOOLEAN,
                                      devices : UNION {RecordedDevices(u) : u \in ClaimUIDs}]] :
                  \A uid \in ClaimUIDs :
                      IF f[uid].present THEN f[uid].devices \in RecordedDevices(uid)
                      ELSE f[uid].devices = NilSlice}}

\* One byte of the payload changed: the case of the first letter of the
\* claims key, that letter into another one, or a letter of the name of
\* the first device of a claim.
Alterations == {"keyCase", "keyLetter", "deviceName"}

AlterationApplies(data, how) ==
    IF how = "deviceName"
    THEN \E uid \in ClaimUIDs : data.claims[uid].present /\ data.claims[uid].value.items # <<>>
    ELSE ~data.omitted

Alter(data, how) ==
    CASE how = "keyCase" -> [data EXCEPT !.key = <<"P", data.key[2]>>]
      [] how = "keyLetter" -> [data EXCEPT !.key = <<"q", data.key[2]>>]
      [] how = "deviceName" ->
            LET uid == CHOOSE u \in ClaimUIDs :
                           data.claims[u].present /\ data.claims[u].value.items # <<>>
            IN [data EXCEPT !.claims[uid].value.items[1].Device.DeviceName = DevGone]

CheckpointInput(cp) ==
    [op |-> "Checkpoint", stage |-> "built", cp |-> cp, data |-> <<>>,
     altered |-> "none", decoded |-> CheckpointOf(NewCheckpoint), verified |-> FALSE]

InitCheckpoint ==
    /\ path = "legacy"
    /\ allocatable = DiscoveredCatalog
    /\ checkpointFile = MarshalCheckpoint(NewCheckpoint)
    /\ cdiFiles = {}
    /\ podManager = NewPodManager
    /\ firstPrepared = NoFirst
    /\ cniSession = NoSession
    /\ process = Serving
    /\ lastCall \in {CheckpointInput(cp) : cp \in Checkpoints}

CheckpointStep(next) ==
    /\ lastCall' = next
    /\ UNCHANGED <<path, allocatable, checkpointFile, cdiFiles, podManager,
                   firstPrepared, cniSession, process>>

Marshal ==
    /\ lastCall.stage = "built"
    /\ CheckpointStep([lastCall EXCEPT !.stage = "marshalled",
                                       !.data = MarshalCheckpointBytes(lastCall.cp)])

AlterPayload ==
    /\ lastCall.stage = "marshalled"
    /\ lastCall.altered = "none"
    /\ \E how \in Alterations :
          /\ AlterationApplies(lastCall.data, how)
          /\ CheckpointStep([lastCall EXCEPT !.altered = how,
                                             !.data = Alter(lastCall.data, how)])

Unmarshal ==
    /\ lastCall.stage = "marshalled"
    /\ CheckpointStep([lastCall EXCEPT !.stage = "unmarshalled",
                                       !.decoded = UnmarshalCheckpointBytes(lastCall.data)])

Verify ==
    /\ lastCall.stage = "unmarshalled"
    /\ CheckpointStep([lastCall EXCEPT !.stage = "verified",
                                       !.verified = VerifyChecksum(lastCall.decoded)])

NextCheckpoint == Marshal \/ AlterPayload \/ Unmarshal \/ Verify

SpecCheckpoint == InitCheckpoint /\ [][NextCheckpoint]_vars

Verified == lastCall.op = "Checkpoint" /\ lastCall.stage = "verified"

\* C13 (as stated): after marshal and unmarshal the claims are the same and
\* the checksum verifies, and whenever a byte of the payload was altered
\* before unmarshalling the checksum does not verify.
C13_AlteredPayloadFails ==
    Verified =>
        IF lastCall.altered = "none"
        THEN lastCall.decoded.PreparedClaims = lastCall.cp.PreparedClaims /\ lastCall.verified
        ELSE ~lastCall.verified

\* C13 (amended): after marshal and unmarshal the claims are the same and
\* the checksum verifies; after an alteration of the payload the checksum
\* verifies exactly when the altered payload decodes to the same claims.
C13_RoundTrip ==
    Verified =>
        /\ lastCall.altered = "none" =>
              lastCall.decoded.PreparedClaims = lastCall.cp.PreparedClaims
        /\ lastCall.verified <=>
              lastCall.decoded.PreparedClaims = lastCall.cp.PreparedClaims

C13_Witness ==
    /\ Verified
    /\ lastCall.altered = "deviceName"
    /\ \E uid \in ClaimUIDs : lastCall.cp.PreparedClaims[uid].present
    /\ lastCall.decoded.PreparedClaims # lastCall.cp.PreparedClaims
    /\ ~lastCall.verified

C13_CaseWitness ==
    /\ Verified
    /\ lastCall.altered = "keyCase"
    /\ lastCall.verified

(***************************************************************************)
(* Restart of the legacy driver.  The process is down or serving; the      *)
(* checkpoint file and the CDI files outlive it.  NewDeviceState runs at   *)
(* every start; process.carried is the record of the claims that were      *)
(* prepared when the process last started.                                 *)
(***************************************************************************)
NoFile == <<>>

Down(carried) == [phase |-> "down", carried |-> carried]

Up(carried) == [phase |-> "serving", carried |-> carried]

NewDeviceStateFaults == {"none", "discover", "cdi", "listCheckpoints", "createCheckpoint"}

\* checkpointManager.ListCheckpoints() holds the driver's checkpoint file.
Found(file) == file # NoFile

\* NewDeviceState: the file it leaves and whether it wrote it.
NewDeviceState(file, fault) ==
    IF fault \in {"discover", "cdi", "listCheckpoints"}
    THEN [err |-> fault, file |-> file, created |-> FALSE]
    ELSE IF Found(file)
    THEN [err |-> "", file |-> file, created |-> FALSE]
    ELSE IF fault = "createCheckpoint"
    THEN [err |-> fault, file |-> file, created |-> FALSE]
    ELSE [err |-> "", file |-> MarshalCheckpoint(NewCheckpoint), created |-> TRUE]

Constructed(fileBefore, o) ==
    [op |-> "NewDeviceState", batch |-> <<>>, items |-> <<>>, result |-> <<>>,
     topErr |-> o.err, found |-> Found(fileBefore), fileBefore |-> fileBefore,
     created |-> o.created]

InitRestart ==
    /\ path = "legacy"
    /\ allocatable = DiscoveredCatalog
    /\ checkpointFile = NoFile
    /\ cdiFiles = {}
    /\ podManager = NewPodManager
    /\ firstPrepared = NoFirst
    /\ lastCall = NoCall
    /\ cniSession = NoSession
    /\ process = Down(NoFirst)

\* The plugin starts: NewDeviceState.
Start ==
    /\ process.phase = "down"
    /\ \E fault \in NewDeviceStateFaults :
          LET started(o) ==
                  /\ checkpointFile' = o.file
                  /\ lastCall' = Constructed(checkpointFile, o)
                  /\ process' = IF o.err = "" THEN Up(firstPrepared) ELSE process
          IN started(NewDeviceState(checkpointFile, fault))
    /\ UNCHANGED <<path, allocatable, cdiFiles, podManager, firstPrepared, cniSession>>

\* The plugin process ends; its files stay.
Stop ==
    /\ process.phase = "serving"
    /\ process' = Down(process.carried)
    /\ UNCHANGED <<path, allocatable, checkpointFile, cdiFiles, podManager,
                   firstPrepared, lastCall, cniSession>>

RestartPrepareBatches == {<<it>> : it \in {i \in LegacyPrepareItems : i.fault = "none"}}

RestartUnprepareBatches == {<<it>> : it \in UnprepareItems({"none"})}

PrepareWhileServing ==
    /\ process.phase = "serving"
    /\ \E batch \in RestartPrepareBatches :
          Commit("PrepareResourceClaims", batch, LegacyPrepareLoop(allocatable, Folded, batch))
    /\ UNCHANGED process

UnprepareWhileServing ==
    /\ process.phase = "serving"
    /\ \E batch \in RestartUnprepareBatches :
          Commit("UnprepareResourceClaims", batch, LegacyUnprepareLoop(Folded, batch))
    /\ UNCHANGED process

NextRestart == Start \/ Stop \/ PrepareWhileServing \/ UnprepareWhileServing

SpecRestart == InitRestart /\ [][NextRestart]_vars

StateConstructed == lastCall.op = "NewDeviceState" /\ lastCall.topErr = ""

CarriedClaims == {uid \in ClaimUIDs : process.carried[<<"legacy", uid>>].prepared}

\* C14: NewDeviceState leaves an existing checkpoint file as it is, with
\* every claim prepared before the restart still in PreparedClaims, and
\* writes a fresh checkpoint with an empty claims map only when there is no
\* file; a Prepare after the restart of a claim prepared before it returns
\* the recorded devices and writes neither a CDI spec file nor the
\* checkpoint.
C14_RestartRecovery ==
    /\ StateConstructed =>
          /\ lastCall.found =>
                (checkpointFile = lastCall.fileBefore /\ ~lastCall.created)
          /\ ~lastCall.found =>
                (checkpointFile = MarshalCheckpoint(NewCheckpoint) /\ lastCall.created)
          /\ \A uid \in CarriedClaims : checkpointFile[uid].present
    /\ (PrepareReturned /\ process.phase = "serving") =>
          \A it \in ItemsReturned :
              (it.repeat /\ it.uid \in CarriedClaims) =>
                  /\ it.err = ""
                  /\ it.devices = it.firstDevices
                  /\ IOOps(it) \cap {"CreateClaimSpecFile", "CreateCheckpoint"} = {}

(***************************************************************************)
(* The process: main and RunPlugin.  process.pc is the position of the     *)
(* main goroutine; signals and background errors arrive from outside while *)
(* it runs.  The context is the root context of RunPlugin: done or not,    *)
(* and the cause of its first cancellation.                                *)
(***************************************************************************)
NotExited == -1
ExitSuccess == 0
ExitFailure == 1

\* A startup that registers the hook plugin before it starts the driver.
StartupStepsNriFirst == <<"dirs", "deviceStateManager", "podManager", "nriNew",
                          "nriStart", "driverStart">>

\* The steps of RunPlugin that can fail, in their order.
StartupSteps == <<"dirs", "deviceStateManager", "podManager", "driverStart",
                  "nriNew", "nriStart">>

Live == [done |-> FALSE, cause |-> ""]

\* A cancel function that does nothing.
CancelNever(ctx, cause) == ctx

\* context.WithCancelCause: the first cancellation sets the cause.
Cancel(ctx, cause) == IF ctx.done THEN ctx ELSE [done |-> TRUE, cause |-> cause]

\* A shutdown that stops the driver before the hook plugin.
ShutdownStepDriverFirst(pc) ==
    CASE pc = "serving" -> "shutdownDriver"
      [] pc = "shutdownDriver" -> "stopNri"
      [] pc = "stopNri" -> "return"

\* The statements of RunPlugin after <-ctx.Done(), in their order.
ShutdownStep(pc) ==
    CASE pc = "serving" -> "stopNri"
      [] pc = "stopNri" -> "shutdownDriver"
      [] pc = "shutdownDriver" -> "return"

Launched ==
    [pc |-> "startup", step |-> 1, ctx |-> Live, signals |-> "default",
     cancelCtx |-> FALSE, driver |-> "none", nri |-> "none", errors |-> 0,
     fatal |-> FALSE, cancelCauses |-> {}, signalled |-> FALSE, log |-> {},
     result |-> "", exit |-> NotExited]

InitMain ==
    /\ path = "nri"
    /\ allocatable = DiscoveredCatalog
    /\ checkpointFile = MarshalCheckpoint(NewCheckpoint)
    /\ cdiFiles = {}
    /\ podManager = NewPodManager
    /\ firstPrepared = NoFirst
    /\ lastCall = NoCall
    /\ cniSession = NoSession
    /\ process = Launched

MainFrame == UNCHANGED <<path, allocatable, checkpointFile, cdiFiles, podManager,
                         firstPrepared, cniSession>>

\* What a successful startup step leaves behind.
StartupDone(p) ==
    CASE StartupSteps[p.step] = "dirs" -> [p EXCEPT !.signals = "handled", !.cancelCtx = TRUE]
      [] StartupSteps[p.step] = "driverStart" -> [p EXCEPT !.driver = "started"]
      [] StartupSteps[p.step] = "nriStart" -> [p EXCEPT !.nri = "started"]
      [] OTHER -> p

\* RunPlugin up to nriPlugin.Start: one step, that fails or not.  A return
\* runs the deferred stop().
StartupStep ==
    /\ process.pc = "startup"
    /\ \E fails \in BOOLEAN :
          process' =
              IF fails
              THEN [process EXCEPT !.pc = "returned", !.result = StartupSteps[process.step],
                                   !.signals = "default"]
              ELSE IF process.step = Len(StartupSteps)
              THEN [StartupDone(process) EXCEPT !.pc = "serving"]
              ELSE [StartupDone(process) EXCEPT !.step = process.step + 1]
    /\ UNCHANGED lastCall
    /\ MainFrame

\* A termination signal while signal.NotifyContext is in place.
Signal ==
    /\ process.signals = "handled"
    /\ ~process.signalled
    /\ process' = [process EXCEPT !.signalled = TRUE,
                                  !.ctx = Cancel(process.ctx, "Canceled")]
    /\ UNCHANGED lastCall
    /\ MainFrame

\* Driver.HandleError, called by the plugin framework while the driver runs.
HandleError ==
    /\ process.driver = "started"
    /\ process.pc \notin {"returned", "exited"}
    /\ process.errors < MaxErrors
    /\ \E recoverable \in BOOLEAN :
          /\ process' =
                IF ~recoverable /\ process.cancelCtx
                THEN [process EXCEPT !.errors = process.errors + 1,
                                     !.fatal = TRUE,
                                     !.cancelCauses = process.cancelCauses \cup {"fatal"},
                                     !.ctx = Cancel(process.ctx, "fatal")]
                ELSE [process EXCEPT !.errors = process.errors + 1]
          /\ lastCall' = [op |-> "HandleError", batch |-> <<>>, items |-> <<>>,
                          result |-> <<>>, topErr |-> "", recoverable |-> recoverable,
                          n |-> process.errors + 1]
    /\ MainFrame

\* <-ctx.Done(); stop(); the cause is logged unless it is context.Canceled.
WaitDone ==
    /\ process.pc = "serving"
    /\ process.ctx.done
    /\ process' = [process EXCEPT
                      !.pc = ShutdownStep(process.pc),
                      !.signals = "default",
                      !.log = IF process.ctx.cause # "Canceled"
                              THEN process.log \cup {"error from context"}
                              ELSE process.log]
    /\ UNCHANGED lastCall
    /\ MainFrame

\* nriPlugin.Stop()
StopNri ==
    /\ process.pc = "stopNri"
    /\ process' = [process EXCEPT !.pc = ShutdownStep(process.pc), !.nri = "stopped"]
    /\ UNCHANGED lastCall
    /\ MainFrame

\* err = dvr.Shutdown(logger), logged if not nil.
ShutdownDriver ==
    /\ process.pc = "shutdownDriver"
    /\ \E fails \in BOOLEAN :
          process' = [process EXCEPT
                         !.pc = ShutdownStep(process.pc),
                         !.driver = "shutdown",
                         !.log = IF fails
                                 THEN process.log \cup {"Unable to cleanly shutdown driver"}
                                 ELSE process.log]
    /\ UNCHANGED lastCall
    /\ MainFrame

\* return nil
Return ==
    /\ process.pc = "return"
    /\ process' = [process EXCEPT !.pc = "returned", !.result = "nil"]
    /\ UNCHANGED lastCall
    /\ MainFrame

\* main: os.Exit(1) on an error of Run, the end of main otherwise.
Exit ==
    /\ process.pc = "returned"
    /\ process' = [process EXCEPT
                      !.pc = "exited",
                      !.exit = IF process.result # "nil" THEN ExitFailure ELSE ExitSuccess]
    /\ UNCHANGED lastCall
    /\ MainFrame

MainGoroutine == StartupStep \/ WaitDone \/ StopNri \/ ShutdownDriver \/ Return \/ Exit

NextMain == MainGoroutine \/ Signal \/ HandleError

SpecMain == InitMain /\ [][NextMain]_vars

\* The main goroutine runs whenever it has a statement to run.
SpecMainLive == SpecMain /\ WF_vars(MainGoroutine)

Exited == process.pc = "exited"

\* C15: the process exits with status 0 after a shutdown on a signal, and
\* with status 1 after a startup error and after a non-recoverable
\* background error cancelled the root context with its cause.
C15_ExitStatus ==
    Exited =>
        IF process.result # "nil" \/ process.ctx.cause = "fatal"
        THEN process.exit = ExitFailure
        ELSE process.exit = ExitSuccess

FatalHandled == process.fatal

ShutdownRun == process.nri = "stopped" /\ process.driver = "shutdown"

RunPluginReturned == process.pc \in {"returned", "exited"}

StartupComplete == process.pc # "startup" /\ process.result \in {"", "nil"}

\* A HandleError call with a recoverable error leaves the context alone.
RecoverableKeepsContext ==
    [][(lastCall' # lastCall /\ lastCall'.op = "HandleError" /\ lastCall'.recoverable)
          => process'.ctx = process.ctx]_vars

\* C16 (as stated): a HandleError call with a non-recoverable error cancels
\* the root context with a fatal cause, and from then on the main loop
\* eventually stops the hook plugin, shuts the driver down and RunPlugin
\* returns; a call with a recoverable error does not cancel the context.
C16_FatalRunsShutdown ==
    /\ [](FatalHandled => (process.ctx.done /\ "fatal" \in process.cancelCauses))
    /\ FatalHandled ~> (ShutdownRun /\ RunPluginReturned)
    /\ RecoverableKeepsContext

\* C16 (amended): a HandleError call with a non-recoverable error cancels
\* the root context with a fatal cause and RunPlugin eventually returns;
\* when the startup of RunPlugin completes, it returns after it stopped the
\* hook plugin and shut the driver down; a call with a recoverable error
\* does not cancel the context.
C16_FatalEndsRunPlugin ==
    /\ [](FatalHandled => (process.ctx.done /\ "fatal" \in process.cancelCauses))
    /\ FatalHandled ~> RunPluginReturned
    /\ (FatalHandled /\ StartupComplete) ~> (ShutdownRun /\ RunPluginReturned)
    /\ RecoverableKeepsContext

C16_Witness ==
    /\ FatalHandled
    /\ process.ctx.cause = "fatal"
    /\ ShutdownRun
    /\ process.pc = "returned"
    /\ lastCall.op = "HandleError" /\ lastCall.recoverable /\ lastCall.n = 2

\* A fatal error during the startup, and a later startup step that fails.
C16_StartupWitness ==
    /\ FatalHandled
    /\ process.pc = "returned"
    /\ process.result = "nriStart"
    /\ ~ShutdownRun

\* C17: once the context is done RunPlugin restores the default signal
\* handling, then stops the hook plugin, then shuts the driver down: a
\* driver that is shut down has its hook plugin stopped, a stopped hook
\* plugin has the default signal handling, and neither happens before the
\* context is done; RunPlugin returns nil after the shutdown even when the
\* shutdown error was logged.
C17_ShutdownOrder ==
    /\ process.driver = "shutdown" => process.nri = "stopped"
    /\ process.nri = "stopped" => (process.signals = "default" /\ process.ctx.done)
    /\ (RunPluginReturned /\ process.driver = "shutdown") => process.result = "nil"
    /\ (RunPluginReturned /\ process.result = "nil") => ShutdownRun

C17_Witness ==
    /\ process.pc = "returned"
    /\ ShutdownRun
    /\ "Unable to cleanly shutdown driver" \in process.log
    /\ process.result = "nil"
    /\ process.signalled

\* C18: on the pod-manager path the pod manager holds an entry for a
\* (pod, claim) pair only if a prepare of the pair returned success and no
\* unprepare of the claim returned success since; once UnprepareResourceClaims
\* returned success for a claim, no pod has an entry for it.
C18_PodManagerEntries ==
    path = "nri" =>
        /\ \A k \in PMKeys : podManager[k].present => firstPrepared[k].prepared
        /\ UnprepareReturned =>
              \A it \in ItemsReturned :
                  it.err = "" => PMPodsOfClaim(podManager, it.uid) = {}

C18_Witness ==
    /\ path = "nri"
    /\ UnprepareReturned
    /\ \E it \in ItemsReturned :
          /\ it.err = ""
          /\ it.known
          /\ "DeleteClaimSpecFile" \in IOOps(it)
          /\ PMPodsOfClaim(podManager, it.uid) = {}
    /\ \E k \in PMKeys : podManager[k].present

(***************************************************************************)
(* Concurrent callers of one device-state manager.  Every caller runs the  *)
(* statements of Prepare (PrepareDevices) or Unprepare one at a time; the  *)
(* mutex of the manager is free (0) or held by a caller.  A statement that *)
(* fails returns, and the return runs the deferred Unlock.                 *)
(***************************************************************************)
Callers == 1..MaxCallers

MutexFree == 0

\* A Prepare that unlocks before it writes.
BodyStepsUnlockedWrites(manager, op) ==
    CASE manager = "legacy" /\ op = "Prepare" ->
            <<"Lock", "GetCheckpoint", "prepareDevices", "Unlock", "CreateClaimSpecFile",
              "CreateCheckpoint">>
      [] manager = "legacy" /\ op = "Unprepare" ->
            <<"Lock", "GetCheckpoint", "DeleteClaimSpecFile", "CreateCheckpoint", "Unlock">>
      [] manager = "nri" /\ op = "Prepare" ->
            <<"Lock", "GetNetAttachDef", "Unlock", "CreateClaimSpecFile">>
      [] manager = "nri" /\ op = "Unprepare" ->
            <<"Lock", "DeleteClaimSpecFile", "Unlock">>

\* The statements of DeviceState.Prepare / Unprepare (legacy) and of
\* DeviceStateManager.PrepareDevices / Unprepare (nri) that lock, unlock or
\* perform I/O, in their order; the deferred Unlock is the last one.
BodySteps(manager, op) ==
    CASE manager = "legacy" /\ op = "Prepare" ->
            <<"Lock", "GetCheckpoint", "prepareDevices", "CreateClaimSpecFile",
              "CreateCheckpoint", "Unlock">>
      [] manager = "legacy" /\ op = "Unprepare" ->
            <<"Lock", "GetCheckpoint", "DeleteClaimSpecFile", "CreateCheckpoint", "Unlock">>
      [] manager = "nri" /\ op = "Prepare" ->
            <<"Lock", "GetNetAttachDef", "CreateClaimSpecFile", "Unlock">>
      [] manager = "nri" /\ op = "Unprepare" ->
            <<"Lock", "DeleteClaimSpecFile", "Unlock">>

IdleCaller == [op |-> "", uid |-> "", at |-> 0]

\* The statement a caller executes next.
Statement(c) == BodySteps(path, c.op)[c.at]

\* The caller after the statement at its position: at the next one, or
\* back from the call after the last one.
Advance(c) ==
    IF c.at = Len(BodySteps(path, c.op)) THEN IdleCaller ELSE [c EXCEPT !.at = c.at + 1]

\* A return: the deferred Unlock if it is still to run, the end of the call
\* otherwise.
ReturnFrom(c) ==
    LET ahead == {i \in (c.at + 1)..Len(BodySteps(path, c.op)) :
                     BodySteps(path, c.op)[i] = "Unlock"}
    IN IF ahead = {} THEN IdleCaller
       ELSE [c EXCEPT !.at = CHOOSE i \in ahead : \A j \in ahead : i <= j]

InitLock ==
    /\ path \in {"legacy", "nri"}
    /\ allocatable = DiscoveredCatalog
    /\ checkpointFile = MarshalCheckpoint(NewCheckpoint)
    /\ cdiFiles = {}
    /\ podManager = NewPodManager
    /\ firstPrepared = NoFirst
    /\ lastCall = NoCall
    /\ cniSession = NoSession
    /\ process = [mutex |-> MutexFree, callers |-> [t \in Callers |-> IdleCaller]]

LockFrame == UNCHANGED <<path, allocatable, checkpointFile, cdiFiles, podManager,
                         firstPrepared, lastCall, cniSession>>

\* A caller enters Prepare (PrepareDevices) or Unprepare for a claim.
Call(t) ==
    /\ process.callers[t].at = 0
    /\ \E op \in {"Prepare", "Unprepare"}, uid \in ClaimUIDs :
          process' = [process EXCEPT !.callers[t] = [op |-> op, uid |-> uid, at |-> 1]]
    /\ LockFrame

\* s.Lock(): blocks while another caller holds the mutex.
Lock(t) ==
    /\ process.callers[t].at > 0
    /\ Statement(process.callers[t]) = "Lock"
    /\ process.mutex = MutexFree
    /\ process' = [process EXCEPT !.mutex = t, !.callers[t] = Advance(process.callers[t])]
    /\ LockFrame

\* A statement of the body: it succeeds, or it fails and the call returns.
BodyStep(t) ==
    /\ process.callers[t].at > 0
    /\ Statement(process.callers[t]) \notin {"Lock", "Unlock"}
    /\ \E fails \in BOOLEAN :
          process' = [process EXCEPT !.callers[t] =
                         IF fails THEN ReturnFrom(process.callers[t])
                         ELSE Advance(process.callers[t])]
    /\ LockFrame

\* defer s.Unlock()
Unlock(t) ==
    /\ process.callers[t].at > 0
    /\ Statement(process.callers[t]) = "Unlock"
    /\ process' = [process EXCEPT !.mutex = MutexFree,
                                  !.callers[t] = Advance(process.callers[t])]
    /\ LockFrame

NextLock == \E t \in Callers : Call(t) \/ Lock(t) \/ BodyStep(t) \/ Unlock(t)

SpecLock == InitLock /\ [][NextLock]_vars

\* The caller is inside the body: past s.Lock() and not yet back.
InBody(t) == process.callers[t].at > 1

\* C19: at most one caller is inside a Prepare (PrepareDevices) or Unprepare
\* body of the manager, and a caller inside a body holds the mutex, at the
\* checkpoint reads and writes, the CDI writes and the definition lookup too.
C19_MutualExclusion ==
    /\ \A t, u \in Callers : (InBody(t) /\ InBody(u)) => t = u
    /\ \A t \in Callers : InBody(t) => process.mutex = t

C19_Witness ==
    /\ InBody(1)
    /\ Statement(process.callers[1]) = "CreateClaimSpecFile"
    /\ process.callers[2].at = 1
    /\ process.callers[2].op = "Unprepare"
    /\ process.callers[2].uid # process.callers[1].uid
    /\ process.mutex = 1

(***************************************************************************)
(* Concurrent hooks on the records of the pod manager.  The pod manager    *)
(* hands out references to its PreparedDevice records under its mutex; the *)
(* hooks read and write the records after the pod manager returned.  Pod   *)
(* p1 has claim c1 prepared; its sandbox is run and stopped, also again    *)
(* under a new sandbox ID and namespace, and the claim is prepared again.  *)
(***************************************************************************)
PreparedPod == "p1"

PreparedClaim == ClaimOf("c1", AllocOne, <<PreparedPod>>)

\* The pod manager after PrepareResourceClaims of the claim.
PreparedPodManager ==
    LET order == CHOOSE o \in OrdersOf(PreparedClaim) : TRUE
    IN NriPrepare(DiscoveredCatalog, NewPodManager, {}, PreparedClaim, "none",
                  order, order).pm

\* The sandboxes of the pod: the first one and its replacement.
PodSandboxes ==
    {[Uid |-> PreparedPod, Id |-> id, Name |-> PodNameOf(PreparedPod),
      Namespace |-> ClaimNamespace,
      Namespaces |-> <<[Type |-> "network", Path |-> <<NetNsOf(PreparedPod), id>>]>>] :
        id \in {"sandbox-1", "sandbox-1b"}}

\* The statements of a hook that touch the pod manager or its records.
HookSteps(op) ==
    CASE op = "RunPodSandbox" ->
            <<"pm.Lock", "GetDevicesByPodUID", "pm.Unlock", "write", "AttachNetwork">>
      [] op = "StopPodSandbox" ->
            <<"pm.Lock", "GetDevicesByPodUID", "pm.Unlock", "write", "DetachNetwork">>
      [] op = "PrepareResourceClaims" ->
            <<"pm.Lock", "Get", "pm.Unlock", "read">>

IdleHook == [op |-> "", pod |-> <<>>, at |-> 0]

HookStatement(c) == IF c.at = 0 THEN "" ELSE HookSteps(c.op)[c.at]

HookAdvance(c) == IF c.at = Len(HookSteps(c.op)) THEN IdleHook ELSE [c EXCEPT !.at = c.at + 1]

\* The fields of the record a statement reads or writes.
Accessed(statement) ==
    CASE statement = "write" ->
            [kind |-> "write", fields |-> {"PodNetworkNamespace", "PodSandboxID"}]
      [] statement \in {"AttachNetwork", "DetachNetwork"} ->
            [kind |-> "read",
             fields |-> {"PodNetworkNamespace", "PodSandboxID", "NetAttachDefConfig", "IfName"}]
      [] statement = "read" -> [kind |-> "read", fields |-> {"Device"}]
      [] OTHER -> [kind |-> "none", fields |-> {}]

\* Two callers are at statements that access a common field of the record,
\* one of them writing, and neither holds the mutex of the pod manager.
Races(t, u) ==
    /\ t # u
    /\ process.mutex \notin {t, u}
    /\ Accessed(HookStatement(process.callers[t])).kind = "write"
    /\ Accessed(HookStatement(process.callers[t])).fields \cap
          Accessed(HookStatement(process.callers[u])).fields # {}

InitRace ==
    /\ path = "nri"
    /\ allocatable = DiscoveredCatalog
    /\ checkpointFile = MarshalCheckpoint(NewCheckpoint)
    /\ cdiFiles = {"c1"}
    /\ podManager = PreparedPodManager
    /\ firstPrepared = NoFirst
    /\ lastCall = NoCall
    /\ cniSession = NoSession
    /\ process = [mutex |-> MutexFree, callers |-> [t \in Callers |-> IdleHook]]

RaceFrame == UNCHANGED <<path, allocatable, checkpointFile, cdiFiles, firstPrepared,
                         cniSession>>

\* The runtime or the kubelet calls a hook.
HookCall(t) ==
    /\ process.callers[t].at = 0
    /\ \/ \E op \in {"RunPodSandbox", "StopPodSandbox"}, pod \in PodSandboxes :
             process' = [process EXCEPT !.callers[t] = [op |-> op, pod |-> pod, at |-> 1]]
       \/ process' = [process EXCEPT !.callers[t] =
                         [op |-> "PrepareResourceClaims", pod |-> <<>>, at |-> 1]]
    /\ UNCHANGED <<podManager, lastCall>>
    /\ RaceFrame

\* The pod manager's operation: lock, look up, unlock.
PodManagerStep(t) ==
    /\ HookStatement(process.callers[t]) \in
          {"pm.Lock", "GetDevicesByPodUID", "Get", "pm.Unlock"}
    /\ HookStatement(process.callers[t]) = "pm.Lock" => process.mutex = MutexFree
    /\ process' = [process EXCEPT
                      !.mutex = CASE HookStatement(process.callers[t]) = "pm.Lock" -> t
                                  [] HookStatement(process.callers[t]) = "pm.Unlock" -> MutexFree
                                  [] OTHER -> process.mutex,
                      !.callers[t] = HookAdvance(process.callers[t])]
    /\ UNCHANGED <<podManager, lastCall>>
    /\ RaceFrame

\* device.PodNetworkNamespace = networkNamespace; device.PodSandboxID = pod.Id.
\* A write that races with another write leaves either value or a torn one.
WriteRecord(t) ==
    /\ HookStatement(process.callers[t]) = "write"
    /\ \E torn \in {FALSE} \cup {\E u \in Callers :
                                    /\ Races(t, u)
                                    /\ HookStatement(process.callers[u]) = "write"} :
          podManager' =
              StampDevices(podManager, PreparedPod, <<[claim |-> "c1", idx |-> 1]>>, 1,
                           IF torn THEN <<"torn">>
                           ELSE getNetworkNamespace(process.callers[t].pod),
                           IF torn THEN "torn" ELSE process.callers[t].pod.Id)
    /\ process' = [process EXCEPT !.callers[t] = HookAdvance(process.callers[t])]
    /\ UNCHANGED lastCall
    /\ RaceFrame

\* p.cniRuntime.AttachNetwork(ctx, device) / DetachNetwork(ctx, device): the
\* call reads the record.
CniReadsRecord(t) ==
    /\ HookStatement(process.callers[t]) \in {"AttachNetwork", "DetachNetwork"}
    /\ lastCall' = [op |-> HookStatement(process.callers[t]), batch |-> <<>>, items |-> <<>>,
                    result |-> <<>>, topErr |-> "",
                    pod |-> process.callers[t].pod,
                    NetNS |-> Deref(podManager, PreparedPod,
                                    [claim |-> "c1", idx |-> 1]).PodNetworkNamespace,
                    ContainerID |-> Deref(podManager, PreparedPod,
                                          [claim |-> "c1", idx |-> 1]).PodSandboxID]
    /\ process' = [process EXCEPT !.callers[t] = HookAdvance(process.callers[t])]
    /\ UNCHANGED podManager
    /\ RaceFrame

\* prepareResourceClaim reads the Device of the record it got.
ReadRecord(t) ==
    /\ HookStatement(process.callers[t]) = "read"
    /\ lastCall' = [op |-> "PrepareResourceClaims", batch |-> <<"c1">>, items |-> <<>>,
                    result |-> <<>>, topErr |-> "",
                    devices |-> ToPluginDevices(GetDevices(
                                    AlreadyPrepared(podManager, PreparedPod, "c1").devices))]
    /\ process' = [process EXCEPT !.callers[t] = HookAdvance(process.callers[t])]
    /\ UNCHANGED podManager
    /\ RaceFrame

NextRace ==
    \E t \in Callers :
        HookCall(t) \/ PodManagerStep(t) \/ WriteRecord(t) \/ CniReadsRecord(t) \/ ReadRecord(t)

SpecRace == InitRace /\ [][NextRace]_vars

\* C20: a record of the pod manager is read and written under the mutex of
\* the pod manager only: no RunPodSandbox or StopPodSandbox is about to
\* write the namespace path and the sandbox ID of a record without the
\* mutex while another hook is about to read or write them without it.
C20_RecordsUnderMutex ==
    \A t, u \in Callers : ~Races(t, u)

(***************************************************************************)
(* Both drivers with every hook, one claim per call: the legacy hooks, the *)
(* hooks of the NRI-integrated driver for claims reserved for one pod,     *)
(* with every fault of the device-state manager, and the sandbox hooks.    *)
(***************************************************************************)
\* Allocations of which one result is fit to prepare and the other is not:
\* its device is not in the catalog, or its config is the default one, which
\* names no network-attachment definition.
AllocPartGone == Alloc(<<Result("a", Dev1), Result("b", DevGone)>>, <<CfgAll>>)
AllocPartDefault == Alloc(<<Result("a", Dev1), Result("b", Dev2)>>, <<CfgA>>)

PartClaims(rf) == {ClaimOf("c1", a, rf) : a \in {AllocPartGone, AllocPartDefault}}

HookLegacyBatches ==
    LegacyPrepareBatches \cup
    UNION {{<<[claim |-> c, fault |-> f, buildOrder |-> bo]>> :
              f \in LegacyPrepareFaults, bo \in OrdersOf(c)} : c \in PartClaims(<<>>)}

HookPrepareBatches ==
    {<<it>> : it \in {i \in NriPrepareItems : i.claim.ReservedFor = <<"p1">>}} \cup
    UNION {{<<[claim |-> c, fault |-> f, applyOrder |-> ao, buildOrder |-> bo]>> :
              f \in NriPrepareFaults, ao \in OrdersOf(c), bo \in OrdersOf(c)} :
                 c \in PartClaims(<<"p1">>)}

HookUnprepareBatches == {<<it>> : it \in UnprepareItems(NriUnprepareFaults)}

NextHooks ==
    \/ PrepareResourceClaimsOf(HookLegacyBatches)
    \/ UnprepareResourceClaimsLegacy
    \/ PrepareResourceClaims(HookPrepareBatches)
    \/ UnprepareResourceClaims(HookUnprepareBatches)
    \/ RunPodSandbox
    \/ StopPodSandbox

SpecHooks == Init /\ [][NextHooks]_vars

\* C21: the allocatable-device catalog is the one built at construction in
\* every reachable state: no Prepare, PrepareDevices, Unprepare,
\* RunPodSandbox or StopPodSandbox, successful or failed, adds, removes or
\* changes an entry of it.
C21_CatalogFixed == allocatable = DiscoveredCatalog

C21_Witness ==
    /\ lastCall.op = "StopPodSandbox"
    /\ lastCall.err = ""
    /\ lastCall.io # <<>>
    /\ cdiFiles = {"c1"}
    /\ allocatable = DiscoveredCatalog

\* The claims of the last PrepareResourceClaims whose devices were prepared
\* by that call, and the record the driver keeps of such a claim: the
\* checkpoint's entry or the pod manager's.
FreshlyPrepared ==
    {it \in ItemsReturned : PrepareReturned /\ it.err = "" /\ ~it.repeat /\ it.devices # <<>>}

RecordOf(it) ==
    IF path = "nri" THEN podManager[<<it.pod, it.uid>>].devices
    ELSE UnmarshalCheckpoint(checkpointFile)[it.uid].devices

\* The network-attachment-definition name of the config resolved for the
\* allocation result a prepared device was built from.
ResolvedNetAttachDef(claim, d) ==
    LET named(configs) ==
            Normalize(configs[ResolveConfig(configs, d.Device.RequestNames[1])].Config)
    IN named(InsertDefault(claim.Allocation.Config)).NetAttachDefName

EnvOf(d) == Range(d.ContainerEdits)

C22_LegacyWitness ==
    /\ path = "legacy"
    /\ \E it \in FreshlyPrepared : Len(RecordOf(it)) = 2

(***************************************************************************)
(* Overlapping PrepareResourceClaims calls.  prepareResourceClaim looks    *)
(* the pair up in the pod manager, calls PrepareDevices and stores the     *)
(* result; each of the three holds a mutex of its own for its duration     *)
(* and none spans the three.  Every caller makes one call for one claim.   *)
(***************************************************************************)
OverlapClaims ==
    {ClaimOf("c1", a, <<"p1">>) : a \in {AllocOne, AllocTwo}} \cup
    {ClaimOf("c2", AllocOther, <<"p1">>)}

\* The statements of prepareResourceClaim that use the pod manager or the
\* device-state manager, in their order.
PrepareSteps == <<"Get", "PrepareDevices", "Set">>

NotCalling ==
    [at |-> 0, claim |-> NoAllocation, devices |-> <<>>, err |-> "", ret |-> <<>>,
     done |-> FALSE, overlaps |-> {}]

InProgress(c) == c.at > 0

PairOf(c) == <<c.claim.ReservedFor[1], c.claim.UID>>

\* A call that is over: its error and its device list.
ReturnedFrom(c, err, ret) == [c EXCEPT !.at = 0, !.done = TRUE, !.err = err, !.ret = ret]

InitOverlap ==
    /\ path = "nri"
    /\ allocatable = DiscoveredCatalog
    /\ checkpointFile = MarshalCheckpoint(NewCheckpoint)
    /\ cdiFiles = {}
    /\ podManager = NewPodManager
    /\ firstPrepared = NoFirst
    /\ lastCall = NoCall
    /\ cniSession = NoSession
    /\ process = [callers |-> [t \in Callers |-> NotCalling],
                  executed |-> [k \in PMKeys |-> <<>>]]

OverlapFrame == UNCHANGED <<path, allocatable, checkpointFile, firstPrepared, lastCall,
                            cniSession>>

\* The kubelet plugin calls PrepareResourceClaims with a claim; the calls in
\* progress for the same pair are noted on both sides.
PrepareCall(t) ==
    /\ process.callers[t] = NotCalling
    /\ \E claim \in OverlapClaims :
          LET same == {u \in Callers \ {t} :
                          /\ InProgress(process.callers[u])
                          /\ process.callers[u].claim = claim}
          IN process' = [process EXCEPT !.callers =
                 [u \in Callers |->
                     IF u = t THEN [NotCalling EXCEPT !.at = 1, !.claim = claim,
                                                      !.overlaps = same]
                     ELSE IF u \in same
                     THEN [process.callers[u] EXCEPT !.overlaps = @ \cup {t}]
                     ELSE process.callers[u]]]
    /\ UNCHANGED <<podManager, cdiFiles>>
    /\ OverlapFrame

\* preparedDevices, isAlreadyPrepared := d.podManager.Get(podUID, claim.UID)
GetPrepared(t) ==
    LET c == process.callers[t]
        got == AlreadyPrepared(podManager, c.claim.ReservedFor[1], c.claim.UID)
    IN /\ InProgress(c)
       /\ PrepareSteps[c.at] = "Get"
       /\ process' = [process EXCEPT !.callers[t] =
                         IF got.found
                         THEN ReturnedFrom(c, "", ToPluginDevices(GetDevices(got.devices)))
                         ELSE [c EXCEPT !.at = c.at + 1]]
       /\ UNCHANGED <<podManager, cdiFiles>>
       /\ OverlapFrame

\* preparedDevices, err := d.deviceStateManager.PrepareDevices(ctx, claim):
\* one execution, under the mutex of the device-state manager.
CallPrepareDevices(t) ==
    LET c == process.callers[t]
    IN /\ InProgress(c)
       /\ PrepareSteps[c.at] = "PrepareDevices"
       /\ \E fault \in NriFaultsOf(c.claim), ao \in OrdersOf(c.claim), bo \in OrdersOf(c.claim) :
             LET ran(pd) ==
                     /\ cdiFiles' = pd.cdi
                     /\ process' =
                           [process EXCEPT
                               !.executed[PairOf(c)] = Append(@, pd.io),
                               !.callers[t] =
                                   IF pd.err # "" THEN ReturnedFrom(c, pd.err, <<>>)
                                   ELSE [c EXCEPT !.at = c.at + 1, !.devices = pd.devices]]
             IN ran(PrepareDevices(allocatable, cdiFiles, c.claim, fault, ao, bo))
       /\ UNCHANGED podManager
       /\ OverlapFrame

\* err = d.podManager.Set(podUID, claim.UID, preparedDevices)
SetPrepared(t) ==
    LET c == process.callers[t]
    IN /\ InProgress(c)
       /\ PrepareSteps[c.at] = "Set"
       /\ podManager' = PMSet(podManager, c.claim.ReservedFor[1], c.claim.UID, c.devices)
       /\ process' = [process EXCEPT !.callers[t] =
                         ReturnedFrom(c, "", ToPluginDevices(GetDevices(c.devices)))]
       /\ UNCHANGED cdiFiles
       /\ OverlapFrame

NextOverlap ==
    \E t \in Callers :
        PrepareCall(t) \/ GetPrepared(t) \/ CallPrepareDevices(t) \/ SetPrepared(t)

SpecOverlap == InitOverlap /\ [][NextOverlap]_vars

\* C23: of two PrepareResourceClaims calls for the same (pod, claim) pair
\* that overlap in time at most one executes PrepareDevices, with its
\* definition lookups and its write of the CDI spec file, and the two calls
\* return the same device list.
C23_OverlapPreparesOnce ==
    \A t, u \in Callers :
        (/\ t # u
         /\ process.callers[t].done
         /\ process.callers[u].done
         /\ u \in process.callers[t].overlaps) =>
            /\ Len(process.executed[PairOf(process.callers[t])]) <= 1
            /\ (process.callers[t].err = "" /\ process.callers[u].err = "") =>
                  process.callers[t].ret = process.callers[u].ret

\* The I/O of a claim's prepare, by operation, and the positions of an
\* operation in it.
OpsOf(it) == [j \in 1..Len(it.io) |-> it.io[j].op]

OpAt(it, op) == {j \in 1..Len(it.io) : it.io[j].op = op}

OpsBefore(it, a, b) == \A i \in OpAt(it, a), j \in OpAt(it, b) : i < j

\* The steps of every claim of the last PrepareResourceClaims came in
\* order, none after a failed one.
PrepareStepsInOrder ==
    PrepareReturned =>
        \A it \in ItemsReturned :
            /\ it.err \in {"InvalidState", "NotAllocatable"} =>
                  OpAt(it, "GetNetAttachDef") \cup OpAt(it, "CreateClaimSpecFile")
                      \cup OpAt(it, "CreateCheckpoint") = {}
            /\ it.err \in {"InvalidConfig", "NetAttachDefLookup", "NoPreparedDevices"} =>
                  OpAt(it, "CreateClaimSpecFile") \cup OpAt(it, "CreateCheckpoint") = {}
            /\ it.err = "CDIWriteFailure" =>
                  /\ OpAt(it, "CreateCheckpoint") = {}
                  /\ ~it.changed
            /\ OpsBefore(it, "GetNetAttachDef", "CreateClaimSpecFile")
            /\ OpsBefore(it, "CreateClaimSpecFile", "CreateCheckpoint")
            /\ OpAt(it, "CreateCheckpoint") # {} =>
                  /\ OpAt(it, "CreateClaimSpecFile") # {}
                  /\ it.fileAfter

\* The claims a step puts on record in the checkpoint.
NewlyRecorded ==
    {uid \in ClaimUIDs : ~checkpointFile[uid].present /\ checkpointFile'[uid].present}

\* C24: within one claim's prepare the config is resolved first, then the
\* CDI edits and the network config are built, then the claim's CDI spec
\* file is written, then (legacy path) the checkpoint is persisted, and no
\* step starts after one that failed; a step that puts a claim on record in
\* the checkpoint leaves the claim's CDI spec file written.
C24_PrepareStepOrder ==
    [][PrepareStepsInOrder' /\ NewlyRecorded \subseteq cdiFiles']_vars

C24_Witness ==
    /\ path = "legacy"
    /\ PrepareReturned
    /\ \E it \in ItemsReturned :
          /\ it.err = "CDIWriteFailure"
          /\ OpsOf(it) = <<"GetCheckpoint", "CreateClaimSpecFile">>
          /\ ~it.recordAfter
          /\ ~it.fileAfter

C24_NriWitness ==
    /\ path = "nri"
    /\ PrepareReturned
    /\ \E it \in ItemsReturned :
          /\ it.err = ""
          /\ OpsOf(it) = <<"PrepareDevices", "GetNetAttachDef", "GetNetAttachDef",
                           "CreateClaimSpecFile">>

\* A claim no device of which can be prepared: its allocation is unset, a
\* result names a device that is not in the catalog, or the config resolved
\* for a result does not pass validation.
AllocationUnset(claim) == ~claim.Allocation.set

NamesAbsentDevice(claim) ==
    \E i \in 1..Len(claim.Allocation.Results) :
        claim.Allocation.Results[i].Device \notin DOMAIN allocatable

MatchesInvalidConfig(claim) ==
    LET invalid(configs) ==
            \E i \in 1..Len(claim.Allocation.Results) :
                ~Validate(Normalize(
                    configs[ResolveConfig(configs, claim.Allocation.Results[i].Request)].Config))
    IN invalid(InsertDefault(claim.Allocation.Config))

Unfit(claim) ==
    AllocationUnset(claim) \/ NamesAbsentDevice(claim) \/ MatchesInvalidConfig(claim)

UnfitError(claim) ==
    IF AllocationUnset(claim) THEN "InvalidState"
    ELSE IF NamesAbsentDevice(claim) THEN "NotAllocatable"
    ELSE "InvalidConfig"

\* The call got as far as the preparation of the devices, and nothing in
\* its environment failed.
ReachedPrepareDevices(it) ==
    /\ it.in.fault = "none"
    /\ path = "nri" => Len(it.in.claim.ReservedFor) = 1

\* No later claim of the batch has the UID of the i-th.
LastOfUID(i) ==
    \A j \in (i + 1)..Len(lastCall.items) : lastCall.items[j].uid # lastCall.items[i].uid

\* C25: the prepare of a claim that is not prepared yet and whose allocation
\* is unset, or one of whose results names a device that is not in the
\* catalog, or one of whose matched configs does not validate, returns an
\* error (InvalidState, NotAllocatable, InvalidConfig when nothing else
\* fails) and no device, writes no CDI spec file and no checkpoint, leaves
\* the CDI directory, the checkpoint and the pod manager as they were, and
\* leaves no device of the claim on record, the valid results included.
C25_UnfitClaimRejected ==
    PrepareReturned =>
        \A i \in 1..Len(lastCall.items) :
            LET it == lastCall.items[i]
            IN (~it.repeat /\ Unfit(it.in.claim)) =>
                  /\ it.err # ""
                  /\ it.devices = <<>>
                  /\ ReachedPrepareDevices(it) => it.err = UnfitError(it.in.claim)
                  /\ IOOps(it) \cap {"CreateClaimSpecFile", "CreateCheckpoint"} = {}
                  /\ ~it.changed
                  /\ (LastOfUID(i) /\ it.pod \in PodUIDs \cup {"legacy"}) =>
                        RecordOf(it) = <<>>

C25_Witness ==
    /\ path = "nri"
    /\ PrepareReturned
    /\ \E it \in ItemsReturned :
          /\ it.in.claim.Allocation = AllocPartDefault
          /\ it.err = "InvalidConfig"
          /\ "GetNetAttachDef" \in IOOps(it)
          /\ ~it.changed
          /\ cdiFiles = {}

C25_AbsentWitness ==
    /\ PrepareReturned
    /\ \E it \in ItemsReturned :
          /\ it.in.claim.Allocation = AllocPartGone
          /\ it.err = "NotAllocatable"
          /\ cdiFiles = {}

\* The number of times a value stands in a list.
Count(list, x) == Cardinality({i \in 1..Len(list) : list[i] = x})

SameBag(a, b) ==
    /\ Len(a) = Len(b)
    /\ \A x \in Range(a) \cup Range(b) : Count(a, x) = Count(b, x)

\* The device a prepare is to return for an allocation result.
DeviceOfResult(claimUID, r) ==
    [Requests |-> <<r.Request>>, PoolName |-> r.Pool, DeviceName |-> r.Device,
     CDIDeviceIDs |-> << <<"k8s.sriov/vf", claimUID, r.Device>> >>]

\* C26: a prepare that prepared the claim's devices and returned success
\* returns one device per allocation result of the claim, in some order,
\* each with the request name, the pool name and the device name of its
\* result and a non-empty list of CDI device IDs made of the claim UID and
\* the device name.
C26_OneDevicePerResult ==
    PrepareReturned =>
        \A it \in ItemsReturned :
            (it.err = "" /\ ~it.repeat) =>
                /\ SameBag(it.devices,
                           [i \in 1..Len(it.in.claim.Allocation.Results) |->
                               DeviceOfResult(it.uid, it.in.claim.Allocation.Results[i])])
                /\ \A d \in Range(it.devices) : d.CDIDeviceIDs # <<>>

C26_Witness ==
    /\ PrepareReturned
    /\ \E it \in ItemsReturned :
          /\ it.err = "" /\ ~it.repeat
          /\ it.in.claim.Allocation = AllocTwo
          /\ Len(it.devices) = 2
          /\ it.devices[1].DeviceName = Dev2
          /\ it.devices[2].DeviceName = Dev1

(***************************************************************************)
(* C27: the sandbox hooks stop at the first failing device.                *)
(***************************************************************************)
SandboxLooped ==
    /\ lastCall.op \in {"RunPodSandbox", "StopPodSandbox"}
    /\ lastCall.hadDevices
    /\ getNetworkNamespace(lastCall.pod) # ""

\* The CNI config handed to the plugin for the i-th device of the list.
SandboxConf(i) ==
    GetCNIConfigFromSpec(Deref(podManager, lastCall.pod.Uid, lastCall.list[i]).NetAttachDefConfig,
                         DriverName)

\* The positions of the list whose attach (detach) fails.
SandboxFailures ==
    {i \in 1..Len(lastCall.list) : i \in lastCall.failing \/ ConfFromBytesFails(SandboxConf(i))}

\* The number of devices the hook gets to: all, or up to the first failure.
SandboxReach ==
    IF SandboxFailures = {} THEN Len(lastCall.list)
    ELSE CHOOSE i \in SandboxFailures : \A j \in SandboxFailures : i <= j

\* C27: RunPodSandbox and StopPodSandbox go through the pod's devices in list
\* order; the first device whose attach (detach) fails makes the hook return
\* an error, and the CNI plugin is called for no device after it.
C27_FirstFailureStops ==
    SandboxLooped =>
        /\ lastCall.err # "" <=> SandboxFailures # {}
        /\ [k \in 1..Len(lastCall.io) |-> [cmd |-> lastCall.io[k].cmd, conf |-> lastCall.io[k].conf]]
             = Flatten([i \in 1..SandboxReach |->
                          IF ConfFromBytesFails(SandboxConf(i)) THEN <<>>
                          ELSE <<[cmd |-> IF lastCall.op = "RunPodSandbox" THEN "ADD" ELSE "DEL",
                                  conf |-> SandboxConf(i)]>>])
        /\ Len(lastCall.io) <= SandboxReach

\* RunPodSandbox of a pod with two devices, the first of which fails: one
\* ADD was made and the hook returned the error.
C27_Witness ==
    /\ SandboxLooped
    /\ lastCall.op = "RunPodSandbox"
    /\ Len(lastCall.list) = 2
    /\ lastCall.failing = {1}
    /\ Len(lastCall.io) = 1
    /\ lastCall.err # ""

\* The same for StopPodSandbox.
C27_StopWitness ==
    /\ SandboxLooped
    /\ lastCall.op = "StopPodSandbox"
    /\ Len(lastCall.list) = 2
    /\ lastCall.failing = {1}
    /\ Len(lastCall.io) = 1
    /\ lastCall.err # ""

(***************************************************************************)
(* C28: PrepareDevices and the empty device list.                          *)
(***************************************************************************)
\* The claim's preparation got to DeviceStateManager.PrepareDevices.
CalledPrepareDevices(it) == "PrepareDevices" \in IOOps(it)

\* The processing of the claim yields a device list without an error, and
\* the list is empty: the allocation is set and has no result.
YieldsEmptyList(claim) == claim.Allocation.set /\ claim.Allocation.Results = <<>>

\* C28: a PrepareDevices whose processing yields an empty device list fails
\* with NoPreparedDevices, returns no device and writes no CDI spec file;
\* the CDI spec file of a claim is written only after the lookups of the
\* processing, for a claim with at least one result and no failing step, and
\* a successful PrepareDevices returns a non-empty list.
C28_EmptyListFails ==
    (path = "nri" /\ PrepareReturned) =>
        \A i \in 1..Len(lastCall.items) :
            LET it == lastCall.items[i]
            IN CalledPrepareDevices(it) =>
                  /\ YieldsEmptyList(it.in.claim) =>
                        /\ it.err = "NoPreparedDevices"
                        /\ it.devices = <<>>
                        /\ "CreateClaimSpecFile" \notin IOOps(it)
                        /\ ~it.changed
                  /\ it.err = "NoPreparedDevices" => YieldsEmptyList(it.in.claim)
                  /\ "CreateClaimSpecFile" \in IOOps(it) =>
                        /\ it.in.claim.Allocation.Results # <<>>
                        /\ ~Unfit(it.in.claim)
                        /\ it.err \in {"", "CDIWriteFailure"}
                        /\ \A k \in 1..Len(it.io) :
                              it.io[k].op = "CreateClaimSpecFile" => k = Len(it.io)
                  /\ it.err = "" => (it.devices # <<>> /\ "CreateClaimSpecFile" \in IOOps(it))

\* A claim whose allocation has no result was handed to PrepareDevices: the
\* call failed with NoPreparedDevices and the CDI directory is still empty.
C28_Witness ==
    /\ path = "nri"
    /\ PrepareReturned
    /\ \E it \in ItemsReturned :
          /\ it.in.claim.Allocation = AllocNone
          /\ CalledPrepareDevices(it)
          /\ it.err = "NoPreparedDevices"
          /\ cdiFiles = {}

\* A claim with results got its CDI spec file.
C28_WrittenWitness ==
    /\ path = "nri"
    /\ PrepareReturned
    /\ \E it \in ItemsReturned :
          /\ it.in.claim.Allocation = AllocTwo
          /\ it.err = ""
          /\ Len(it.devices) = 2
          /\ it.uid \in cdiFiles

(***************************************************************************)
(* C29: unprepareResourceClaim and the pod-manager entry.                  *)
(***************************************************************************)
NriUnprepareReturned == path = "nri" /\ UnprepareReturned

\* What the unprepare of each claim of the batch that just returned did and
\* left: a claim that was not on record is a success without any call; a
\* claim on record had Unprepare called; when that failed the claim's result
\* is the error and the claim is still in the pod manager, and when it
\* succeeded the claim is gone from it.
UnprepareThenDelete ==
    NriUnprepareReturned =>
        \A i \in 1..Len(lastCall.items) :
            LET it == lastCall.items[i]
            IN /\ it.io = <<>> => it.err = ""
               /\ it.io # <<>> => it.io[1].op = "Unprepare"
               /\ (it.err # "" /\ LastOfUID(i)) =>
                     /\ "Unprepare" \in IOOps(it)
                     /\ PMGetByClaimFound(podManager, it.uid)
               /\ (it.err = "" /\ LastOfUID(i)) => ~PMGetByClaimFound(podManager, it.uid)

\* An unprepare that starts with a claim whose unprepare just failed finds
\* the claim and calls Unprepare for it again.
RetryFindsClaim ==
    (NriUnprepareReturned /\ lastCall'.op = "UnprepareResourceClaims") =>
        \A i \in 1..Len(lastCall.items) :
            (lastCall.items[i].err # "" /\ LastOfUID(i)
               /\ lastCall'.items[1].uid = lastCall.items[i].uid) =>
                  "Unprepare" \in IOOps(lastCall'.items[1])

\* C29: on the pod-manager path the unprepare of a recorded claim calls the
\* device-state manager's Unprepare first and removes the claim from the pod
\* manager only when that succeeded; when it failed the claim's result is an
\* error, the entry is still there, and a retry finds the claim again.
C29_UnprepareBeforeDelete ==
    [][UnprepareThenDelete' /\ RetryFindsClaim]_vars

\* The unprepare of a recorded claim failed at the CDI spec file: the claim
\* is still in the pod manager.
C29_Witness ==
    /\ NriUnprepareReturned
    /\ \E it \in ItemsReturned :
          /\ it.err = "CDIDeleteFailure"
          /\ "Unprepare" \in IOOps(it)
          /\ PMGetByClaimFound(podManager, it.uid)
          /\ it.uid \in cdiFiles

(***************************************************************************)
(* C30: what aborts the discovery.                                         *)
(***************************************************************************)
DiscoveryReturned == lastCall.op = "DiscoverSriovDevices" /\ lastCall.done

\* The devices the first loop passes over: class not hexadecimal, class not
\* the network class, a physfn symlink, or no interface name.
SkippedDevices ==
    {i \in 1..Len(lastCall.devices) :
        \/ lastCall.devices[i].Class = "zz"
        \/ lastCall.devices[i].Class = "01"
        \/ lastCall.devices[i].physfn
        \/ lastCall.devices[i].net = <<>>}

\* C30: the discovery returns an error, and no catalog, exactly when the PCI
\* enumeration fails, when it finds no PCI device, or when the VF list of an
\* accepted PF cannot be read; a device that is skipped does not abort it,
\* so a discovery over devices that are all skipped succeeds with an empty
\* catalog.
C30_DiscoveryAborts ==
    DiscoveryReturned =>
        /\ lastCall.err # "" <=>
              \/ lastCall.fault = "pci"
              \/ Len(lastCall.devices) = 0
              \/ lastCall.fault = "readdir" /\ NetworkPFs # {}
        /\ lastCall.err # "" => lastCall.catalog = <<>>
        /\ NetworkPFs = (1..Len(lastCall.devices)) \ SkippedDevices
        /\ (lastCall.fault # "pci" /\ Len(lastCall.devices) > 0
              /\ SkippedDevices = 1..Len(lastCall.devices)) =>
                 (lastCall.err = "" /\ DOMAIN lastCall.catalog = {})

\* Two devices, both skipped (a VF and a storage controller), in a sysfs
\* whose directories cannot be read: the discovery succeeded with an empty
\* catalog.
C30_Witness ==
    /\ DiscoveryReturned
    /\ lastCall.fault = "readdir"
    /\ Len(lastCall.devices) = 2
    /\ lastCall.devices[1].physfn
    /\ lastCall.devices[2].Class = "01"
    /\ lastCall.err = ""
    /\ DOMAIN lastCall.catalog = {}

\* The VF list of the second device, the only accepted PF, could not be read.
C30_AbortWitness ==
    /\ DiscoveryReturned
    /\ lastCall.fault = "readdir"
    /\ NetworkPFs = {2}
    /\ lastCall.err # ""

(***************************************************************************)
(* C31: the order of the startup of RunPlugin.                             *)
(***************************************************************************)
StartupFailed == RunPluginReturned /\ process.result \notin {"", "nil"}

\* What exists once the startup got past a step: the cancel context after
\* the directories, the started driver after driver.Start, the started
\* hook plugin after nriPlugin.Start.
StartupEffects ==
    [context |-> process.cancelCtx,
     driver |-> process.driver # "none",
     nri |-> process.nri # "none"]

\* C31: RunPlugin ensures the directories, installs the signal and cancel
\* context, constructs the device-state manager and the pod manager, starts
\* the driver, and constructs and starts the hook plugin, in this order; a
\* step that fails makes RunPlugin return its error with no later step run;
\* the hook plugin is never started before the driver is.
C31_StartupOrder ==
    /\ StartupEffects.nri => StartupEffects.driver
    /\ StartupEffects.driver => StartupEffects.context
    /\ process.pc = "startup" =>
          /\ StartupEffects.context <=> process.step > 1
          /\ StartupEffects.driver <=> process.step > 4
          /\ ~StartupEffects.nri
    /\ StartupFailed =>
          /\ process.result = "dirs" =>
                StartupEffects = [context |-> FALSE, driver |-> FALSE, nri |-> FALSE]
          /\ process.result \in {"deviceStateManager", "podManager", "driverStart"} =>
                StartupEffects = [context |-> TRUE, driver |-> FALSE, nri |-> FALSE]
          /\ process.result \in {"nriNew", "nriStart"} =>
                /\ StartupEffects = [context |-> TRUE, driver |-> TRUE, nri |-> FALSE]
                /\ process.driver = "started"
    /\ (RunPluginReturned /\ ~StartupFailed) =>
          StartupEffects = [context |-> TRUE, driver |-> TRUE, nri |-> TRUE]

\* The construction of the hook plugin failed after the driver had started:
\* RunPlugin returned the error and never started the hook plugin.
C31_Witness ==
    /\ process.pc = "returned"
    /\ process.result = "nriNew"
    /\ process.driver = "started"
    /\ process.nri = "none"
    /\ process.cancelCtx

\* driver.Start failed: no hook plugin was constructed or started.
C31_DriverWitness ==
    /\ process.pc = "returned"
    /\ process.result = "driverStart"
    /\ process.driver = "none"
    /\ process.nri = "none"

(***************************************************************************)
(* C32: the checkpoint and the CDI spec files of the legacy path.          *)
(***************************************************************************)
\* The claims on record in the persisted checkpoint.
CheckpointedClaims ==
    {uid \in ClaimUIDs : UnmarshalCheckpoint(checkpointFile)[uid].present}

\* C32: on the legacy path, whatever Prepare and Unprepare calls ran and
\* whichever of their writes failed, every claim on record in the persisted
\* checkpoint has its CDI spec file on disk.
C32_CheckpointedClaimHasFile ==
    path = "legacy" => CheckpointedClaims \subseteq cdiFiles

(***************************************************************************)
(* The pod-manager path as a whole: prepares of one claim at a time for    *)
(* either pod and with every fault, unprepares with every fault, and the   *)
(* sandbox hooks, in any order.                                            *)
(***************************************************************************)
InitNri == Init /\ path = "nri"

\* Claims with one result (a device of the catalog or one that is gone),
\* reserved for either pod or for a pod without UID.
NriSinglePrepares ==
    {<<it>> : it \in {i \in NriPrepareItems :
                        /\ i.claim.Allocation \in {AllocOne, AllocGone, AllocOther}
                        /\ i.claim.ReservedFor \in {<<"p1">>, <<"p2">>, <<EmptyUID>>}}}

NextNri ==
    \/ PrepareResourceClaims(NriSinglePrepares)
    \/ UnprepareResourceClaims(HookUnprepareBatches)
    \/ RunPodSandbox
    \/ StopPodSandbox

SpecNri == InitNri /\ [][NextNri]_vars

(***************************************************************************)
(* C33: the pod manager and the CDI spec files.                            *)
(***************************************************************************)
\* The claims the pod manager holds an entry for, under any pod.
ClaimsInPodManager == {c \in ClaimUIDs : PMGetByClaimFound(podManager, c)}

C33_FailedUnprepareWitness ==
    /\ NriUnprepareReturned
    /\ \E it \in ItemsReturned : it.err # "" /\ it.uid \in ClaimsInPodManager \cap cdiFiles

(***************************************************************************)
(* C34: what a failed prepare of the pod-manager path leaves behind.       *)
(***************************************************************************)
\* C34: on the pod-manager path, when the prepare of a claim that was not
\* prepared before the call returns an error, the claim has no CDI spec file
\* and no pod-manager entry after the call.
C34_FailedPrepareLeavesNothing ==
    (path = "nri" /\ PrepareReturned) =>
        \A it \in ItemsReturned :
            (it.err # "" /\ ~it.known) => (~it.fileAfter /\ ~it.recordAfter)

(***************************************************************************)
(* A PrepareResourceClaims call and UnprepareResourceClaims calls that     *)
(* overlap.  unprepareResourceClaim looks the claim up in the pod manager, *)
(* calls Unprepare and deletes the claim from the pod manager; as in       *)
(* prepareResourceClaim each of the three holds a mutex of its own and     *)
(* none spans the three.  The driver starts with nothing prepared or with  *)
(* the claim c1 prepared for the other pod.                                *)
(***************************************************************************)
UnprepareSteps == <<"GetByClaim", "Unprepare", "DeleteClaim">>

NotUnpreparing == [at |-> 0, uid |-> EmptyUID, err |-> "", done |-> FALSE, during |-> {}]

\* The driver after the prepare of the claim c1 reserved for the pod p2:
\* PrepareDevices wrote the file and Set stored the devices.
ClaimOfOtherPod == ClaimOf("c1", AllocOne, <<"p2">>)

PreparedForOtherPod ==
    LET set(pd) == [pm |-> PMSet(NewPodManager, "p2", "c1", pd.devices), cdi |-> pd.cdi,
                    err |-> pd.err]
    IN {st \in {set(PrepareDevices(DiscoveredCatalog, {}, ClaimOfOtherPod, "none", ao, bo)) :
                    ao \in OrdersOf(ClaimOfOtherPod), bo \in OrdersOf(ClaimOfOtherPod)} :
           st.err = ""}

NothingPrepared == [pm |-> NewPodManager, cdi |-> {}, err |-> ""]

InitMixed ==
    /\ path = "nri"
    /\ allocatable = DiscoveredCatalog
    /\ checkpointFile = MarshalCheckpoint(NewCheckpoint)
    /\ \E before \in {NothingPrepared} \cup PreparedForOtherPod :
          /\ podManager = before.pm
          /\ cdiFiles = before.cdi
    /\ firstPrepared = NoFirst
    /\ lastCall = NoCall
    /\ cniSession = NoSession
    /\ process = [callers |-> [t \in Callers |-> NotCalling],
                  executed |-> [k \in PMKeys |-> <<>>],
                  unpreparers |-> [t \in Callers |-> NotUnpreparing]]

\* The prepare calls in progress for the claim.
PreparingClaim(uid) ==
    {u \in Callers : InProgress(process.callers[u]) /\ process.callers[u].claim.UID = uid}

\* The kubelet plugin calls UnprepareResourceClaims with a claim; the
\* prepare calls in progress for the claim are noted, here and at every
\* statement of the unprepare.
UnprepareCall(t) ==
    /\ process.unpreparers[t] = NotUnpreparing
    /\ process.callers[t] = NotCalling
    /\ \E uid \in ClaimUIDs :
          process' = [process EXCEPT !.unpreparers[t] =
                         [NotUnpreparing EXCEPT !.at = 1, !.uid = uid,
                                                !.during = PreparingClaim(uid)]]
    /\ UNCHANGED <<podManager, cdiFiles>>
    /\ OverlapFrame

\* preparedDevices, found := d.podManager.GetByClaim(claim)
GetByClaim(t) ==
    LET c == process.unpreparers[t]
    IN /\ c.at > 0
       /\ UnprepareSteps[c.at] = "GetByClaim"
       /\ process' = [process EXCEPT !.unpreparers[t] =
                         IF PMGetByClaimFound(podManager, c.uid)
                         THEN [c EXCEPT !.at = c.at + 1,
                                        !.during = @ \cup PreparingClaim(c.uid)]
                         ELSE [c EXCEPT !.at = 0, !.done = TRUE,
                                        !.during = @ \cup PreparingClaim(c.uid)]]
       /\ UNCHANGED <<podManager, cdiFiles>>
       /\ OverlapFrame

\* d.deviceStateManager.Unprepare(string(claim.UID), preparedDevices): one
\* execution, under the mutex of the device-state manager.
CallUnprepare(t) ==
    LET c == process.unpreparers[t]
    IN /\ c.at > 0
       /\ UnprepareSteps[c.at] = "Unprepare"
       /\ \E fault \in NriUnprepareFaults :
             LET ran(u) ==
                     /\ cdiFiles' = u.cdi
                     /\ process' = [process EXCEPT !.unpreparers[t] =
                                       IF u.err # ""
                                       THEN [c EXCEPT !.at = 0, !.done = TRUE, !.err = u.err,
                                                      !.during = @ \cup PreparingClaim(c.uid)]
                                       ELSE [c EXCEPT !.at = c.at + 1,
                                                      !.during = @ \cup PreparingClaim(c.uid)]]
             IN ran(NriUnprepare(cdiFiles, c.uid, fault))
       /\ UNCHANGED podManager
       /\ OverlapFrame

\* err := d.podManager.DeleteClaim(claim)
DeleteClaim(t) ==
    LET c == process.unpreparers[t]
    IN /\ c.at > 0
       /\ UnprepareSteps[c.at] = "DeleteClaim"
       /\ podManager' = PMDeleteClaim(podManager, c.uid)
       /\ process' = [process EXCEPT !.unpreparers[t] =
                         [c EXCEPT !.at = 0, !.done = TRUE,
                                   !.during = @ \cup PreparingClaim(c.uid)]]
       /\ UNCHANGED cdiFiles
       /\ OverlapFrame

\* A caller makes a prepare call or an unprepare call.
MixedPrepareCall(t) == process.unpreparers[t] = NotUnpreparing /\ PrepareCall(t)

NextMixed ==
    \E t \in Callers :
        \/ MixedPrepareCall(t) \/ GetPrepared(t) \/ CallPrepareDevices(t) \/ SetPrepared(t)
        \/ UnprepareCall(t) \/ GetByClaim(t) \/ CallUnprepare(t) \/ DeleteClaim(t)

SpecMixed == InitMixed /\ [][NextMixed]_vars

\* The calls that were made: one prepare (by t) and one unprepare (by u) of
\* the same claim that overlapped in time, both over and both successful.
OverlappedPair(t, u) ==
    /\ process.callers[t].done /\ process.callers[t].err = ""
    /\ process.unpreparers[u].done /\ process.unpreparers[u].err = ""
    /\ process.unpreparers[u].uid = process.callers[t].claim.UID
    /\ \A v \in Callers \ {t, u} :
          process.callers[v] = NotCalling /\ process.unpreparers[v] = NotUnpreparing

Attaching == [phase |-> "serving", attached |-> {}]

InitAttach ==
    /\ path = "nri"
    /\ allocatable = DiscoveredCatalog
    /\ checkpointFile = MarshalCheckpoint(NewCheckpoint)
    /\ cdiFiles = {}
    /\ podManager = NewPodManager
    /\ firstPrepared = NoFirst
    /\ lastCall = NoCall
    /\ cniSession = NoSession
    /\ process = Attaching

AttachPrepareBatches ==
    {b \in SandboxPrepareBatches :
        b[1].claim.ReservedFor = <<"p1">> /\ b[1].claim.Allocation \in {AllocOne, AllocOther}}

NextAttach ==
    \/ PrepareResourceClaims(AttachPrepareBatches)
    \/ UnprepareResourceClaims(SandboxUnprepareBatches)
    \/ RunPodSandbox
    \/ StopPodSandbox

SpecAttach == InitAttach /\ [][NextAttach]_vars

\* The interfaces added to the sandbox and not deleted since.
AttachedTo(sandboxID) == {a \in process.attached : a[1] = sandboxID}

\* C36: when StopPodSandbox returns success, every device for which a
\* RunPodSandbox of that sandbox made a successful CNI ADD has received a
\* CNI DEL, whatever prepares and unprepares ran in between.
C36_StopDetachesAttached ==
    (lastCall.op = "StopPodSandbox" /\ lastCall.err = "") =>
        AttachedTo(lastCall.pod.Id) = {}

(***************************************************************************)
(* C37: a RunPodSandbox that fails.                                        *)
(***************************************************************************)
\* RunPodSandbox returned the error of a CNI attach.
RunFailedAtAttach ==
    /\ lastCall.op = "RunPodSandbox"
    /\ lastCall.err # ""
    /\ lastCall.failing # {}

\* The CNI ADD calls of the hook call that succeeded: those made for the
\* devices before the first failing one (the k-th call is made for the k-th
\* device of the list, every config of the definitions being parsable).
AddedBeforeFailure ==
    {k \in 1..Len(lastCall.io) :
        lastCall.io[k].cmd = "ADD" /\ \A i \in lastCall.failing : k < i}

\* C37: when RunPodSandbox returns an error because the attach of a device
\* failed, every CNI ADD of the same call that succeeded before has been
\* undone by a CNI DEL of the call, and no interface of the sandbox is left
\* attached.
C37_FailedRunDetaches ==
    RunFailedAtAttach =>
        /\ \A k \in AddedBeforeFailure :
              \E j \in (k + 1)..Len(lastCall.io) :
                  /\ lastCall.io[j].cmd = "DEL"
                  /\ lastCall.io[j].conf = lastCall.io[k].conf
        /\ AttachedTo(lastCall.pod.Id) = {}

(***************************************************************************)
(* C38: one device named by two allocation results of a claim.  The hooks  *)
(* of the NRI-integrated driver, one claim per call, for claims reserved   *)
(* for one pod whose allocation names one device once, two devices, or one *)
(* device twice under two requests with a config each.                     *)
(***************************************************************************)
AllocSameDevice == Alloc(<<Result("a", Dev1), Result("b", Dev1)>>, <<CfgA, CfgB>>)

SharedClaims ==
    {ClaimOf(uid, a, <<"p1">>) : uid \in ClaimUIDs, a \in {AllocOne, AllocTwo, AllocSameDevice}}

SharedPrepareBatches ==
    UNION {{<<[claim |-> c, fault |-> f, applyOrder |-> ao, buildOrder |-> bo]>> :
              f \in NriPrepareFaults, ao \in OrdersOf(c), bo \in OrdersOf(c)} :
                 c \in SharedClaims}

InitShared == Init /\ path = "nri"

NextShared ==
    \/ PrepareResourceClaims(SharedPrepareBatches)
    \/ UnprepareResourceClaims(HookUnprepareBatches)

SpecShared == InitShared /\ [][NextShared]_vars

\* The config that governs the allocation result a prepared device was
\* built from: the one resolved for the result's request.
GoverningConfig(claim, d) ==
    LET governing(configs) ==
            Normalize(configs[ResolveConfig(configs, d.Device.RequestNames[1])].Config)
    IN governing(InsertDefault(claim.Allocation.Config))

\* The prepared device of the result d was built from, under a given config.
UnderConfig(claim, d, cfg) ==
    NriPreparedDevice(allocatable, claim,
                      Result(d.Device.RequestNames[1], d.Device.DeviceName), cfg)

CarriesConfig(claim, d, cfg) ==
    /\ d.ContainerEdits = UnderConfig(claim, d, cfg).ContainerEdits
    /\ d.NetAttachDefConfig = UnderConfig(claim, d, cfg).NetAttachDefConfig
    /\ d.IfName = UnderConfig(claim, d, cfg).IfName

\* C38: every prepared device that prepareDevices builds carries the
\* container edits, the network configuration and the interface name derived
\* from the config that governs its own allocation result, whatever the
\* order the config map is iterated in, also when two results of the claim
\* name the same device under different requests and configs.
C38_DeviceCarriesOwnConfig ==
    path = "nri" =>
        \A it \in FreshlyPrepared :
            \A d \in Range(RecordOf(it)) :
                CarriesConfig(it.in.claim, d, GoverningConfig(it.in.claim, d))

\* The same for the claims no two results of which name the same device.
DistinctDevicesCarryOwnConfig ==
    path = "nri" =>
        \A it \in FreshlyPrepared :
            (\A i, j \in 1..Len(it.in.claim.Allocation.Results) :
                 i # j => it.in.claim.Allocation.Results[i].Device #
                          it.in.claim.Allocation.Results[j].Device)
            => \A d \in Range(RecordOf(it)) :
                   CarriesConfig(it.in.claim, d, GoverningConfig(it.in.claim, d))

(***************************************************************************)
(* C39: concurrent hook calls and the mutexes of the components.  Every    *)
(* caller runs the statements of one hook call that lock, unlock or        *)
(* perform I/O: the calls into the pod manager, which lock its mutex for   *)
(* the call, and the calls into the device-state manager, which lock the   *)
(* manager's.  A statement that makes its function return runs the         *)
(* function's deferred Unlock, and the hook returns after it.              *)
(***************************************************************************)
Mutexes == {"dsm", "pm"}

LockStatements == {"Lock", "pm.Lock"}

UnlockStatements == {"Unlock", "pm.Unlock"}

MutexOf(statement) == IF statement \in {"Lock", "Unlock"} THEN "dsm" ELSE "pm"

\* A call into the pod manager: its mutex is held for the call.
PMCall(name) == <<"pm.Lock", name, "pm.Unlock">>

\* The statements of one hook call, for one claim or one sandbox.
CallSteps(manager, op) ==
    CASE manager = "legacy" -> BodySteps("legacy", op)
      [] manager = "nri" /\ op = "Prepare" ->
            PMCall("Get") \o BodySteps("nri", "Prepare") \o PMCall("Set")
      [] manager = "nri" /\ op = "Unprepare" ->
            PMCall("GetByClaim") \o BodySteps("nri", "Unprepare") \o PMCall("DeleteClaim")
      [] manager = "nri" /\ op = "RunPodSandbox" ->
            PMCall("GetDevicesByPodUID") \o <<"AttachNetwork">>
      [] manager = "nri" /\ op = "StopPodSandbox" ->
            PMCall("GetDevicesByPodUID") \o <<"DetachNetwork">>

CallOps(manager) ==
    IF manager = "legacy" THEN {"Prepare", "Unprepare"}
    ELSE {"Prepare", "Unprepare", "RunPodSandbox", "StopPodSandbox"}

\* A return that runs no deferred Unlock.
DeferredUnlockNone(steps, at) == 0

\* The deferred Unlock that a return at a statement runs: the Unlock of the
\* function the statement is in, or none (0) outside a locking function.
DeferredUnlock(steps, at) ==
    LET ahead == {i \in (at + 1)..Len(steps) : steps[i] \in UnlockStatements}
        next(a) == CHOOSE i \in a : \A j \in a : i <= j
        inside(first) == \A i \in (at + 1)..first : steps[i] \notin LockStatements
    IN IF ahead = {} THEN 0
       ELSE IF inside(next(ahead)) THEN next(ahead) ELSE 0

OutOfCall == [op |-> "", at |-> 0, returning |-> FALSE]

CallStepsOf(c) == CallSteps(path, c.op)

StatementOf(c) == IF c.at = 0 THEN "" ELSE CallStepsOf(c)[c.at]

Proceed(c) == IF c.at = Len(CallStepsOf(c)) THEN OutOfCall ELSE [c EXCEPT !.at = c.at + 1]

\* The function returns at the statement: its deferred Unlock runs and the
\* hook call returns.
ReturnAt(c) ==
    LET to(u) == IF u = 0 THEN OutOfCall ELSE [c EXCEPT !.at = u, !.returning = TRUE]
    IN to(DeferredUnlock(CallStepsOf(c), c.at))

InitLive ==
    /\ path \in {"legacy", "nri"}
    /\ allocatable = DiscoveredCatalog
    /\ checkpointFile = MarshalCheckpoint(NewCheckpoint)
    /\ cdiFiles = {}
    /\ podManager = NewPodManager
    /\ firstPrepared = NoFirst
    /\ lastCall = NoCall
    /\ cniSession = NoSession
    /\ process = [held |-> [m \in Mutexes |-> MutexFree],
                  callers |-> [t \in Callers |-> OutOfCall]]

\* A caller enters a hook.
EnterHook(t) ==
    /\ process.callers[t].at = 0
    /\ \E op \in CallOps(path) :
          process' = [process EXCEPT !.callers[t] = [op |-> op, at |-> 1, returning |-> FALSE]]
    /\ LockFrame

\* Lock(): blocks while a caller holds the mutex.
AcquireMutex(t) ==
    /\ StatementOf(process.callers[t]) \in LockStatements
    /\ process.held[MutexOf(StatementOf(process.callers[t]))] = MutexFree
    /\ process' = [process EXCEPT
                     !.held[MutexOf(StatementOf(process.callers[t]))] = t,
                     !.callers[t] = Proceed(process.callers[t])]
    /\ LockFrame

\* A statement between Lock and Unlock, or one of the hook itself: the
\* call goes on, or the function returns at the statement.
Perform(t) ==
    /\ process.callers[t].at > 0
    /\ StatementOf(process.callers[t]) \notin LockStatements \cup UnlockStatements
    /\ \E returns \in BOOLEAN :
          process' = [process EXCEPT !.callers[t] =
                         IF returns THEN ReturnAt(process.callers[t])
                         ELSE Proceed(process.callers[t])]
    /\ LockFrame

\* defer Unlock()
Release(t) ==
    /\ StatementOf(process.callers[t]) \in UnlockStatements
    /\ process' = [process EXCEPT
                     !.held[MutexOf(StatementOf(process.callers[t]))] = MutexFree,
                     !.callers[t] = IF process.callers[t].returning THEN OutOfCall
                                    ELSE Proceed(process.callers[t])]
    /\ LockFrame

NextLive == \E t \in Callers : EnterHook(t) \/ AcquireMutex(t) \/ Perform(t) \/ Release(t)

\* Every filesystem, API and CNI call returns and every goroutine that can
\* run does (weak fairness of the statements); sync.Mutex hands the mutex
\* to a goroutine that keeps waiting for it (its starvation mode), which is
\* strong fairness of Lock.  No caller has to start a call.
LiveFairness ==
    \A t \in Callers :
        /\ WF_vars(Perform(t))
        /\ WF_vars(Release(t))
        /\ SF_vars(AcquireMutex(t))

SpecLive == InitLive /\ [][NextLive]_vars /\ LiveFairness

Calling(t) == process.callers[t].at > 0

HeldBy(t) == {m \in Mutexes : process.held[m] = t}

\* No caller is at a Lock while it holds a mutex.
NoHoldAndWait ==
    \A t \in Callers :
        StatementOf(process.callers[t]) \in LockStatements => HeldBy(t) = {}

\* A caller that is not in a call holds no mutex, and a caller in a call
\* holds at most the mutex whose Unlock is the deferred one.
ReleasedOnReturn ==
    \A t \in Callers :
        /\ ~Calling(t) => HeldBy(t) = {}
        /\ Calling(t) =>
              \A m \in HeldBy(t) :
                  \E i \in process.callers[t].at..Len(CallStepsOf(process.callers[t])) :
                      /\ CallStepsOf(process.callers[t])[i] \in UnlockStatements
                      /\ MutexOf(CallStepsOf(process.callers[t])[i]) = m

\* C39: deadlock freedom.  For concurrent PrepareResourceClaims,
\* UnprepareResourceClaims, RunPodSandbox and StopPodSandbox calls, no call
\* waits for a lock while it holds a mutex, every acquired mutex is released
\* on every return path, error returns included, and, provided every
\* filesystem, API and CNI call returns, every call eventually returns.
C39_DeadlockFreedom ==
    /\ [](NoHoldAndWait /\ ReleasedOnReturn)
    /\ \A t \in Callers : Calling(t) ~> ~Calling(t)

\* A prepare returns with an error from inside PrepareDevices, holding the
\* mutex of the device-state manager until its deferred Unlock, while
\* another caller waits for that mutex.
C39_Witness ==
    /\ path = "nri"
    /\ \E t, u \in Callers :
          /\ t # u
          /\ process.callers[t].op = "Prepare"
          /\ process.callers[t].returning
          /\ StatementOf(process.callers[t]) = "Unlock"
          /\ process.held["dsm"] = t
          /\ process.callers[u].op = "Unprepare"
          /\ StatementOf(process.callers[u]) = "Lock"

\* A sandbox hook holds the pod manager's mutex while a prepare waits for
\* it at Set, after its PrepareDevices returned.
C39_PodManagerWitness ==
    /\ path = "nri"
    /\ \E t, u \in Callers :
          /\ process.held["pm"] = t
          /\ process.callers[t].op = "RunPodSandbox"
          /\ process.callers[u].op = "Prepare"
          /\ StatementOf(process.callers[u]) = "pm.Lock"
          /\ process.callers[u].at > Len(PMCall("Get"))

====
